---- MODULE Spec2Model ----
(***************************************************************************)
(* Model of the SDP control client (src/lib/sdp_ctrl_client.c): daemon     *)
(* lifecycle and PID-file lock, the keep-alive / credential request state  *)
(* machine with retry and backoff, the credential store with rollback,     *)
(* the signal handling of the control loop, and the public request API.    *)
(*                                                                         *)
(* The C functions are pure operators over a record `client` (the context  *)
(* struct, with the fields of client->com flattened into it); the actions  *)
(* apply them at the positions of the control loop.  Collaborators whose   *)
(* code is not part of the modelled files (transport, codec, file helpers, *)
(* config parser) are modelled by their contract and by nondeterministic   *)
(* outcomes.                                                               *)
(***************************************************************************)
EXTENDS Integers, Sequences, FiniteSets, TLC

VARIABLES
    client,         \* the context struct (sdp_ctrl_client_t), com fields included
    ctx,            \* "live" | "freed": whether the context memory is still allocated
    config_disk,    \* the client config file on disk (the options the model varies)
    disk,           \* [files, backups]: the four credential targets and their backups
    pc,             \* position of the process in start / the control loop
    rv,             \* the loop's local rv
    msg_cnt,        \* check_inbox's local msg_cnt
    inbox,          \* messages queued in the transport, oldest first
    now,            \* time(NULL)
    sig,            \* the sig_atomic_t flags
    handlers,       \* whether sdp_ctrl_client_set_sig_handlers has run
    lock_holder,    \* pid holding the PID-file lock, 0 if none
    pid_file,       \* content of the PID file, a sequence of characters
    proc,           \* pid of the process executing the model's client
    parent,         \* what start returned in the parent after a fork
    ev,             \* what the last step did: [op, rv, tx]
    tx_unanswered,  \* transmissions of the outstanding request since it was first sent
    retries,        \* retries of the outstanding request
    nsig,           \* signals delivered so far
    nbundle,        \* credential bundles the controller has sent so far
    lock_tried,     \* whether the running process went through the lock step
    alive,          \* pids of the other processes that exist
    stop,           \* sdp_ctrl_client_stop's locals and what it has done so far
    rpdb,           \* the digest cache file: digest -> source ip, NoEntry if absent
    replay          \* the last replay_check call and the digests it answered 0 for

vars == <<client, ctx, config_disk, disk, pc, rv, msg_cnt, inbox, now, sig,
          handlers, lock_holder, pid_file, proc, parent, ev, tx_unanswered,
          retries, nsig, nbundle, lock_tried, alive, stop, rpdb, replay>>

(***************************************************************************)
(* Bounds of the model                                                     *)
(***************************************************************************)
StartTime == 10
MaxTicks == 3
MaxAttempts == 3
MaxQueue == 2
MaxSignals == 2
MaxBundles == 2
ApiTicks == 2

(***************************************************************************)
(* Names                                                                   *)
(***************************************************************************)
READY == "SDP_CTRL_CLIENT_STATE_READY"
KEEP_ALIVE_REQUESTING == "SDP_CTRL_CLIENT_STATE_KEEP_ALIVE_REQUESTING"
KEEP_ALIVE_UNFULFILLED == "SDP_CTRL_CLIENT_STATE_KEEP_ALIVE_UNFULFILLED"
CRED_REQUESTING == "SDP_CTRL_CLIENT_STATE_CRED_REQUESTING"
CRED_UNFULFILLED == "SDP_CTRL_CLIENT_STATE_CRED_UNFULFILLED"
TIME_TO_QUIT == "SDP_CTRL_CLIENT_STATE_TIME_TO_QUIT"

ClientStates ==
    {READY, KEEP_ALIVE_REQUESTING, KEEP_ALIVE_UNFULFILLED, CRED_REQUESTING,
     CRED_UNFULFILLED, TIME_TO_QUIT}

KeepAliveStates == {KEEP_ALIVE_REQUESTING, KEEP_ALIVE_UNFULFILLED}
CredStates == {CRED_REQUESTING, CRED_UNFULFILLED}

SDP_COM_CONNECTED == "SDP_COM_CONNECTED"
SDP_COM_DISCONNECTED == "SDP_COM_DISCONNECTED"

SDP_SUCCESS == "SDP_SUCCESS"
SDP_ERROR == "SDP_ERROR"
SDP_ERROR_UNINITIALIZED == "SDP_ERROR_UNINITIALIZED"
SDP_ERROR_CONN_DOWN == "SDP_ERROR_CONN_DOWN"
SDP_ERROR_STATE == "SDP_ERROR_STATE"
SDP_ERROR_MANY_FAILED_REQS == "SDP_ERROR_MANY_FAILED_REQS"
SDP_ERROR_GOT_EXIT_SIG == "SDP_ERROR_GOT_EXIT_SIG"
SDP_ERROR_MEMORY_ALLOCATION == "SDP_ERROR_MEMORY_ALLOCATION"
SDP_ERROR_FILESYSTEM_OPERATION == "SDP_ERROR_FILESYSTEM_OPERATION"
SDP_ERROR_FORK == "SDP_ERROR_FORK"
SDP_ERROR_PROC_EXISTS == "SDP_ERROR_PROC_EXISTS"
\* errors of the collaborators (their codes are not part of the modelled files)
ERR_MESSAGE_MAKE == "error from sdp_message_make"
ERR_MESSAGE_PROCESS == "error from sdp_message_process"
ERR_COM_SEND == "error from sdp_com_send_msg"
ERR_COM_GET == "error from sdp_com_get_msg"
ERR_COM_CONNECT == "error from sdp_com_connect"
ERR_COM_NEW == "error from sdp_com_new"
ERR_CONFIG_INIT == "error from sdp_ctrl_client_config_init"
ERR_SAVE_TO_FILE == "error from sdp_save_to_file"
ERR_REPLACE_SPA_KEYS == "error from sdp_replace_spa_keys"

\* outbound messages
MSG_KEEP_ALIVE == "keep_alive"
MSG_CRED_REQUESTING == "cred_update/requesting"
MSG_CRED_FULFILLED == "cred_update/fulfilled"
Requests == {MSG_KEEP_ALIVE, MSG_CRED_REQUESTING}

\* inbound results of sdp_message_process
KEEP_ALIVE_FULFILLING == "KEEP_ALIVE_FULFILLING"
CREDS_FULFILLING == "CREDS_FULFILLING"
BAD_RESULT == "BAD_RESULT"
UNKNOWN_RESULT == "a result tag check_inbox has no case for"
MALFORMED == "an envelope sdp_message_process rejects"
\* what the controller puts on the wire; an UNRECOGNISED envelope is classified by the
\* codec as BAD_RESULT or as a tag the client does not know, or is rejected
UNRECOGNISED == "UNRECOGNISED"
Tags == {KEEP_ALIVE_FULFILLING, CREDS_FULFILLING, UNRECOGNISED}

\* outcomes of making and sending one message
SendOutcomes == {"ok", "make_fail", "send_fail"}

Targets == <<"cert", "key", "config", "fwknoprc">>
TargetSet == {"cert", "key", "config", "fwknoprc"}
NULLKEY == -1

\* pids of the processes of the model and the descriptor open() returns
MyPid == 2
ChildPid == 3
OtherPid == 1
PidFd == 3

Range(s) == {s[i] : i \in 1..Len(s)}

Res(c, code, sent) == [client |-> c, rv |-> code, tx |-> sent]

(***************************************************************************)
(* Configuration (sdp_ctrl_client_config_init, modelled by its contract)   *)
(***************************************************************************)
\* the options of the config file the model varies; the intervals are in
\* seconds, small enough for deadlines to fall within MaxTicks
KeepAliveIntervals == {1, 2}
ReqRetryIntervals == {1, 2}
QueueLens == {1, 2}
CredUpdateIntervals == {0, 3}

Configs ==
    [foreground : BOOLEAN, remain_connected : BOOLEAN,
     keep_alive_interval : KeepAliveIntervals,
     cred_update_interval : CredUpdateIntervals,
     initial_req_retry_interval : ReqRetryIntervals,
     max_req_attempts : 1..MaxAttempts,
     message_queue_len : QueueLens]

\* the context after calloc/memset followed by a successful config_init
sdp_ctrl_client_config_init(cfg, keys) ==
    [initialized |-> TRUE,
     foreground |-> cfg.foreground,
     remain_connected |-> cfg.remain_connected,
     keep_alive_interval |-> cfg.keep_alive_interval,
     cred_update_interval |-> cfg.cred_update_interval,
     initial_req_retry_interval |-> cfg.initial_req_retry_interval,
     max_req_attempts |-> cfg.max_req_attempts,
     message_queue_len |-> cfg.message_queue_len,
     client_state |-> READY,
     conn_state |-> SDP_COM_DISCONNECTED,
     last_contact |-> 0,
     last_cred_update |-> 0,
     initial_conn_time |-> 0,
     last_req_time |-> 0,
     req_retry_interval |-> cfg.initial_req_retry_interval,
     req_attempts |-> 0,
     pid |-> 0,
     pid_lock_fd |-> 0,
     spa_encryption_key |-> keys,
     spa_hmac_key |-> keys]

(***************************************************************************)
(* Transport facade (contract)                                             *)
(***************************************************************************)
sdp_com_disconnect(c) == [c EXCEPT !.conn_state = SDP_COM_DISCONNECTED]

(***************************************************************************)
(* Request variables                                                       *)
(***************************************************************************)
\* variant of sdp_ctrl_client_clear_state_vars that keeps the doubled interval
clear_state_vars_keeps_interval(c) ==
    [c EXCEPT !.last_req_time = 0,
              !.req_attempts = 0,
              !.client_state = READY]

\* variant of sdp_ctrl_client_clear_state_vars that keeps req_attempts
clear_state_vars_keeps_attempts(c) ==
    [c EXCEPT !.last_req_time = 0,
              !.req_retry_interval = c.initial_req_retry_interval,
              !.client_state = READY]

sdp_ctrl_client_clear_state_vars(c) ==
    [c EXCEPT !.last_req_time = 0,
              !.req_retry_interval = c.initial_req_retry_interval,
              !.req_attempts = 0,
              !.client_state = READY]

\* variant of sdp_ctrl_client_set_request_vars that does not count the attempt
set_request_vars_no_count(c, new_state, t) ==
    [c EXCEPT !.client_state = new_state,
              !.last_req_time = t]

sdp_ctrl_client_set_request_vars(c, new_state, t) ==
    [c EXCEPT !.client_state = new_state,
              !.last_req_time = t,
              !.req_attempts = @ + 1]

(***************************************************************************)
(* Requests                                                                *)
(***************************************************************************)
\* variant of keep_alive_state_ok that accepts every state
keep_alive_state_ok_any(c) == TRUE

keep_alive_state_ok(c) ==
    c.client_state \in {READY, KEEP_ALIVE_UNFULFILLED, KEEP_ALIVE_REQUESTING}

cred_state_ok(c) ==
    c.client_state \in {READY, CRED_UNFULFILLED, CRED_REQUESTING}

\* variant of request_conn_down that never sees the connection down
request_conn_down_unchecked(c) == FALSE

request_conn_down(c) == c.conn_state = SDP_COM_DISCONNECTED

\* variant of sdp_ctrl_client_request_keep_alive that sets the request
\* variables before the message is made and sent
request_keep_alive_sets_first(c, t, out) ==
    IF ~c.initialized THEN Res(c, SDP_ERROR_UNINITIALIZED, <<>>)
    ELSE IF request_conn_down(c) THEN Res(c, SDP_ERROR_CONN_DOWN, <<>>)
    ELSE IF ~keep_alive_state_ok(c) THEN Res(c, SDP_ERROR_STATE, <<>>)
    ELSE LET c1 == sdp_ctrl_client_set_request_vars(c, KEEP_ALIVE_REQUESTING, t)
         IN  IF out = "make_fail" THEN Res(c1, ERR_MESSAGE_MAKE, <<>>)
             ELSE IF out = "send_fail" THEN Res(c1, ERR_COM_SEND, <<>>)
             ELSE Res(c1, SDP_SUCCESS, <<MSG_KEEP_ALIVE>>)

sdp_ctrl_client_request_keep_alive(c, t, out) ==
    IF ~c.initialized THEN Res(c, SDP_ERROR_UNINITIALIZED, <<>>)
    ELSE IF request_conn_down(c) THEN Res(c, SDP_ERROR_CONN_DOWN, <<>>)
    ELSE IF ~keep_alive_state_ok(c) THEN Res(c, SDP_ERROR_STATE, <<>>)
    ELSE IF out = "make_fail" THEN Res(c, ERR_MESSAGE_MAKE, <<>>)
    ELSE IF out = "send_fail" THEN Res(c, ERR_COM_SEND, <<>>)
    ELSE Res(sdp_ctrl_client_set_request_vars(c, KEEP_ALIVE_REQUESTING, t),
             SDP_SUCCESS, <<MSG_KEEP_ALIVE>>)

sdp_ctrl_client_request_cred_update(c, t, out) ==
    IF ~c.initialized THEN Res(c, SDP_ERROR_UNINITIALIZED, <<>>)
    ELSE IF request_conn_down(c) THEN Res(c, SDP_ERROR_CONN_DOWN, <<>>)
    ELSE IF ~cred_state_ok(c) THEN Res(c, SDP_ERROR_STATE, <<>>)
    ELSE IF out = "make_fail" THEN Res(c, ERR_MESSAGE_MAKE, <<>>)
    ELSE IF out = "send_fail" THEN Res(c, ERR_COM_SEND, <<>>)
    ELSE Res(sdp_ctrl_client_set_request_vars(c, CRED_REQUESTING, t),
             SDP_SUCCESS, <<MSG_CRED_REQUESTING>>)

\* variant of sdp_ctrl_client_process_keep_alive that clears the request
\* variables whatever the state
process_keep_alive_clears_always(c, t) ==
    sdp_ctrl_client_clear_state_vars([c EXCEPT !.last_contact = t])

sdp_ctrl_client_process_keep_alive(c, t) ==
    LET c1 == [c EXCEPT !.last_contact = t]
    IN  IF c1.client_state \in KeepAliveStates
        THEN sdp_ctrl_client_clear_state_vars(c1)
        ELSE c1

(***************************************************************************)
(* Retry policy                                                            *)
(***************************************************************************)
\* variant of attempts_exhausted that never gives up
attempts_never_exhausted(c) == FALSE

\* variant of attempts_exhausted that allows one more attempt
attempts_exhausted_off_by_one(c) == c.req_attempts > c.max_req_attempts

attempts_exhausted(c) == c.req_attempts >= c.max_req_attempts

\* variant of next_retry_interval that keeps the interval
retry_interval_not_doubled(c) == c.req_retry_interval

next_retry_interval(c) == c.req_retry_interval * 2

retry_due(c, t) == t >= c.last_req_time + c.req_retry_interval

\* variant of keep_alive_idle that also takes an outstanding credential
\* request for idle
keep_alive_idle_or_cred(c) == c.client_state \in {READY} \cup CredStates

\* consider_keep_alive's first test: no request is outstanding
keep_alive_idle(c) == c.client_state = READY

keep_alive_due(c, t) == t >= c.last_contact + c.keep_alive_interval

cred_update_due(c, t) == t >= c.last_cred_update + c.cred_update_interval

sdp_ctrl_client_consider_keep_alive(c, t, out) ==
    IF ~c.initialized THEN Res(c, SDP_ERROR_UNINITIALIZED, <<>>)
    ELSE IF c.conn_state = SDP_COM_DISCONNECTED THEN Res(c, SDP_SUCCESS, <<>>)
    ELSE IF keep_alive_idle(c) THEN
        IF keep_alive_due(c, t)
        THEN sdp_ctrl_client_request_keep_alive(c, t, out)
        ELSE Res(c, SDP_SUCCESS, <<>>)
    ELSE IF c.client_state \in KeepAliveStates THEN
        IF retry_due(c, t) THEN
            IF attempts_exhausted(c)
            THEN Res([sdp_com_disconnect(c) EXCEPT !.client_state = TIME_TO_QUIT],
                     SDP_ERROR_MANY_FAILED_REQS, <<>>)
            ELSE sdp_ctrl_client_request_keep_alive(
                     [c EXCEPT !.client_state = KEEP_ALIVE_UNFULFILLED,
                               !.req_retry_interval = next_retry_interval(c)],
                     t, out)
        ELSE Res(c, SDP_SUCCESS, <<>>)
    ELSE Res(c, SDP_SUCCESS, <<>>)

sdp_ctrl_client_consider_cred_update(c, t, out) ==
    IF ~c.initialized THEN Res(c, SDP_ERROR_UNINITIALIZED, <<>>)
    ELSE IF c.conn_state = SDP_COM_DISCONNECTED THEN Res(c, SDP_SUCCESS, <<>>)
    ELSE IF c.client_state = READY THEN
        IF cred_update_due(c, t)
        THEN sdp_ctrl_client_request_cred_update(c, t, out)
        ELSE Res(c, SDP_SUCCESS, <<>>)
    ELSE IF c.client_state \in CredStates THEN
        IF retry_due(c, t) THEN
            IF attempts_exhausted(c)
            THEN Res([sdp_com_disconnect(c) EXCEPT !.client_state = TIME_TO_QUIT],
                     SDP_ERROR_MANY_FAILED_REQS, <<>>)
            ELSE sdp_ctrl_client_request_cred_update(
                     [c EXCEPT !.client_state = CRED_UNFULFILLED,
                               !.req_retry_interval = next_retry_interval(c)],
                     t, out)
        ELSE Res(c, SDP_SUCCESS, <<>>)
    ELSE Res(c, SDP_SUCCESS, <<>>)

(***************************************************************************)
(* Credential store.  sdp_save_to_file, sdp_replace_spa_keys and           *)
(* sdp_restore_file are modelled by their contract: a successful write     *)
(* keeps the previous content as the backup and replaces the target, a     *)
(* failed write leaves the target as it was, a restore puts the backup     *)
(* back.  d is [files, backups].                                           *)
(***************************************************************************)
sdp_save_to_file(d, f, data, fails) ==
    IF fails
    THEN [disk |-> d, rv |-> ERR_SAVE_TO_FILE]
    ELSE [disk |-> [files |-> [d.files EXCEPT ![f] = data],
                    backups |-> [d.backups EXCEPT ![f] = d.files[f]]],
          rv |-> SDP_SUCCESS]

sdp_replace_spa_keys(d, f, data, fails) ==
    IF fails
    THEN [disk |-> d, rv |-> ERR_REPLACE_SPA_KEYS]
    ELSE sdp_save_to_file(d, f, data, FALSE)

sdp_restore_file(d, f) == [d EXCEPT !.files[f] = d.backups[f]]

RECURSIVE RestoreAll(_, _)
RestoreAll(d, fs) ==
    IF fs = <<>> THEN d ELSE RestoreAll(sdp_restore_file(d, Head(fs)), Tail(fs))

\* variant of rollback_targets that leaves out the last restore of steps 3 and 4
rollback_skips_last(step) ==
    IF step = 2 THEN <<"cert">>
    ELSE IF step = 3 THEN <<"cert">>
    ELSE IF step = 4 THEN <<"cert", "key">>
    ELSE <<>>

\* variant of rollback_targets that restores the last written target first
rollback_reversed(step) ==
    IF step = 2 THEN <<"cert">>
    ELSE IF step = 3 THEN <<"key", "cert">>
    ELSE IF step = 4 THEN <<"config", "key", "cert">>
    ELSE <<>>

\* the sdp_restore_file calls made when the write of step `step` fails
rollback_targets(step) ==
    IF step = 2 THEN <<"cert">>
    ELSE IF step = 3 THEN <<"cert", "key">>
    ELSE IF step = 4 THEN <<"cert", "key", "config">>
    ELSE <<>>

StoreRes(c, d, code, step, restored) ==
    [client |-> c, disk |-> d, rv |-> code, failed_step |-> step, restored |-> restored]

\* fail: 0 = nothing fails, 1..4 = the write of that step fails,
\*       5 / 6 = strndup of the encryption / HMAC key fails
FailPoints == 0..6

sdp_ctrl_client_save_credentials(c, d, creds, fail) ==
    LET s1 == sdp_save_to_file(d, "cert", creds, fail = 1) IN
    IF s1.rv # SDP_SUCCESS THEN StoreRes(c, s1.disk, s1.rv, 1, rollback_targets(1))
    ELSE
    LET s2 == sdp_save_to_file(s1.disk, "key", creds, fail = 2) IN
    IF s2.rv # SDP_SUCCESS
    THEN StoreRes(c, RestoreAll(s2.disk, rollback_targets(2)), s2.rv, 2, rollback_targets(2))
    ELSE
    LET s3 == sdp_replace_spa_keys(s2.disk, "config", creds, fail = 3) IN
    IF s3.rv # SDP_SUCCESS
    THEN StoreRes(c, RestoreAll(s3.disk, rollback_targets(3)), s3.rv, 3, rollback_targets(3))
    ELSE
    LET s4 == sdp_replace_spa_keys(s3.disk, "fwknoprc", creds, fail = 4) IN
    IF s4.rv # SDP_SUCCESS
    THEN StoreRes(c, RestoreAll(s4.disk, rollback_targets(4)), s4.rv, 4, rollback_targets(4))
    ELSE
    \* free(old); new = strndup(...): the old key is gone before the copy is made
    IF fail = 5
    THEN StoreRes([c EXCEPT !.spa_encryption_key = NULLKEY], s4.disk,
                  SDP_ERROR_MEMORY_ALLOCATION, 0, <<>>)
    ELSE IF fail = 6
    THEN StoreRes([c EXCEPT !.spa_encryption_key = creds, !.spa_hmac_key = NULLKEY],
                  s4.disk, SDP_ERROR_MEMORY_ALLOCATION, 0, <<>>)
    ELSE StoreRes([c EXCEPT !.spa_encryption_key = creds, !.spa_hmac_key = creds],
                  s4.disk, SDP_SUCCESS, 0, <<>>)

CredRes(c, d, code, sent, s) ==
    [client |-> c, disk |-> d, rv |-> code, tx |-> sent, store |-> s]

\* variant of cred_request_outstanding that takes any outstanding request
any_request_outstanding(c) == c.client_state # READY

\* process_cred_update's test before it clears the request variables
cred_request_outstanding(c) == c.client_state \in CredStates

\* variant of store_failed that goes on whatever the store returned
store_failed_ignored(s) == FALSE

\* process_cred_update's test of the store's return code
store_failed(s) == s.rv # SDP_SUCCESS

sdp_ctrl_client_process_cred_update(c, d, creds, t, fail, out) ==
    LET s == sdp_ctrl_client_save_credentials(c, d, creds, fail) IN
    IF store_failed(s) THEN CredRes(s.client, s.disk, s.rv, <<>>, s)
    ELSE
    LET c1 == [s.client EXCEPT !.last_contact = t, !.last_cred_update = t]
        c2 == IF cred_request_outstanding(c1)
              THEN sdp_ctrl_client_clear_state_vars(c1)
              ELSE c1
    IN  IF out = "make_fail" THEN CredRes(c2, s.disk, ERR_MESSAGE_MAKE, <<>>, s)
        ELSE IF out = "send_fail" THEN CredRes(c2, s.disk, ERR_COM_SEND, <<>>, s)
        ELSE CredRes(c2, s.disk, SDP_SUCCESS, <<MSG_CRED_FULFILLED>>, s)

(***************************************************************************)
(* In-place restart (SIGHUP)                                               *)
(***************************************************************************)
\* the context after sdp_ctrl_client_destroy_internals and memset(client, 0)
ZeroedClient ==
    [initialized |-> FALSE, foreground |-> FALSE, remain_connected |-> FALSE,
     keep_alive_interval |-> 0, cred_update_interval |-> 0,
     initial_req_retry_interval |-> 0, max_req_attempts |-> 0,
     message_queue_len |-> 0, client_state |-> READY,
     conn_state |-> SDP_COM_DISCONNECTED, last_contact |-> 0,
     last_cred_update |-> 0, initial_conn_time |-> 0, last_req_time |-> 0,
     req_retry_interval |-> 0, req_attempts |-> 0, pid |-> 0, pid_lock_fd |-> 0,
     spa_encryption_key |-> NULLKEY, spa_hmac_key |-> NULLKEY]

ConfigOf(c) ==
    [foreground |-> c.foreground, remain_connected |-> c.remain_connected,
     keep_alive_interval |-> c.keep_alive_interval,
     cred_update_interval |-> c.cred_update_interval,
     initial_req_retry_interval |-> c.initial_req_retry_interval,
     max_req_attempts |-> c.max_req_attempts,
     message_queue_len |-> c.message_queue_len]

\* variant of restart_config that reuses the options held in memory
restart_config_cached(c, cfg) == ConfigOf(c)

\* the configuration the restart initialises the new context from
restart_config(c, cfg) == cfg

RestartOutcomes == {"ok", "strndup_fail", "com_new_fail", "config_fail"}

RestartRes(c, code, freed) == [client |-> c, rv |-> code, freed |-> freed]

sdp_ctrl_client_restart_myself(c, cfg, keys, out) ==
    LET c0 == sdp_com_disconnect(c) IN
    IF out = "strndup_fail" THEN RestartRes(c0, SDP_ERROR_MEMORY_ALLOCATION, FALSE)
    ELSE IF out = "com_new_fail" THEN RestartRes(ZeroedClient, ERR_COM_NEW, TRUE)
    ELSE IF out = "config_fail" THEN RestartRes(ZeroedClient, ERR_CONFIG_INIT, TRUE)
    ELSE RestartRes(sdp_ctrl_client_config_init(restart_config(c, cfg), keys),
                    SDP_SUCCESS, FALSE)

(***************************************************************************)
(* Signals.  s is [got_signal, sighup, sigint, sigterm, sigusr1];          *)
(* got_signal holds the last signal's name, "none" for 0.                  *)
(***************************************************************************)
Signals == {"SIGHUP", "SIGINT", "SIGTERM", "SIGUSR1"}

NoSignals ==
    [got_signal |-> "none", sighup |-> FALSE, sigint |-> FALSE,
     sigterm |-> FALSE, sigusr1 |-> FALSE]

sdp_ctrl_client_sig_handler(s, sg) ==
    IF sg = "SIGHUP" THEN [s EXCEPT !.got_signal = sg, !.sighup = TRUE]
    ELSE IF sg = "SIGINT" THEN [s EXCEPT !.got_signal = sg, !.sigint = TRUE]
    ELSE IF sg = "SIGTERM" THEN [s EXCEPT !.got_signal = sg, !.sigterm = TRUE]
    ELSE [s EXCEPT !.got_signal = sg, !.sigusr1 = TRUE]

SigRes(s, c, code, freed, act) ==
    [sig |-> s, client |-> c, rv |-> code, freed |-> freed, acted |-> act]

\* variant of sdp_ctrl_client_handle_signals that clears every flag once it
\* has acted
handle_signals_clears_all(s, c, cfg, keys, out) ==
    IF s.got_signal # "none" THEN
        IF s.sighup THEN
            LET r == sdp_ctrl_client_restart_myself(c, cfg, keys, out)
            IN  SigRes(NoSignals, r.client, r.rv, r.freed, "SIGHUP")
        ELSE IF s.sigint
        THEN SigRes(NoSignals, c, SDP_ERROR_GOT_EXIT_SIG, FALSE, "SIGINT")
        ELSE IF s.sigterm
        THEN SigRes(NoSignals, c, SDP_ERROR_GOT_EXIT_SIG, FALSE, "SIGTERM")
        ELSE SigRes(NoSignals, c, SDP_SUCCESS, FALSE, "none")
    ELSE SigRes(s, c, SDP_SUCCESS, FALSE, "none")

sdp_ctrl_client_handle_signals(s, c, cfg, keys, out) ==
    IF s.got_signal # "none" THEN
        LET s0 == [s EXCEPT !.got_signal = "none"] IN
        IF s.sighup THEN
            LET r == sdp_ctrl_client_restart_myself(c, cfg, keys, out)
            IN  SigRes([s0 EXCEPT !.sighup = FALSE], r.client, r.rv, r.freed, "SIGHUP")
        ELSE IF s.sigint
        THEN SigRes([s0 EXCEPT !.sigint = FALSE], c, SDP_ERROR_GOT_EXIT_SIG, FALSE, "SIGINT")
        ELSE IF s.sigterm
        THEN SigRes([s0 EXCEPT !.sigterm = FALSE], c, SDP_ERROR_GOT_EXIT_SIG, FALSE, "SIGTERM")
        ELSE SigRes(s0, c, SDP_SUCCESS, FALSE, "none")
    ELSE SigRes(s, c, SDP_SUCCESS, FALSE, "none")

(***************************************************************************)
(* PID file and start                                                      *)
(***************************************************************************)
PidOutcomes ==
    {"ok", "fork_fail", "open_fail", "fcntl_fail", "lock_err", "read_fail",
     "chdir_fail", "sig_fail"}

\* what an uninitialised pid_t may hold
Garbage == {-1, 0, OtherPid}

PID_BUFLEN == 7

NL == "\n"

DigitChars == <<"0", "1", "2", "3", "4", "5", "6", "7", "8", "9">>

Take(text, n) == SubSeq(text, 1, IF Len(text) < n THEN Len(text) ELSE n)

\* printf's %i of a pid
RECURSIVE Decimal(_)
Decimal(n) ==
    IF n < 10 THEN <<DigitChars[n + 1]>>
    ELSE Append(Decimal(n \div 10), DigitChars[(n % 10) + 1])

\* snprintf(buf, PID_BUFLEN, "%i\n", my_pid): at most PID_BUFLEN - 1 characters
snprintf_pid(my_pid) == Take(Append(Decimal(my_pid), NL), PID_BUFLEN - 1)

\* write() of buf at offset 0 of a file opened without O_TRUNC
write_at_start(old, buf) == buf \o SubSeq(old, Len(buf) + 1, Len(old))

DigitVal(ch) == CHOOSE d \in 0..9 : DigitChars[d + 1] = ch

\* strtol over the leading digits of buf, acc being the value read so far
RECURSIVE strtol(_, _)
strtol(buf, acc) ==
    IF buf = <<>> \/ Head(buf) \notin Range(DigitChars) THEN acc
    ELSE strtol(Tail(buf), acc * 10 + DigitVal(Head(buf)))

\* the decimal number buf starts with, 0 if there is none
sdp_strtol_wrapper(buf) == strtol(buf, 0)

GpRes(code, pid) == [rv |-> code, pid |-> pid]

\* text: the content of the PID file; out = "read_fail" stands for a failing
\* stat, open or read
sdp_ctrl_client_get_running_pid(c, text, out) ==
    IF ~c.initialized THEN GpRes(SDP_ERROR_UNINITIALIZED, 0)
    ELSE IF out = "read_fail" \/ text = <<>>
    THEN GpRes(SDP_ERROR_FILESYSTEM_OPERATION, 0)
    ELSE GpRes(SDP_SUCCESS, sdp_strtol_wrapper(Take(text, PID_BUFLEN - 1)))

WpRes(c, code, isset, old, holder, filepid) ==
    [client |-> c, rv |-> code, set |-> isset, old_pid |-> old,
     holder |-> holder, pid_file |-> filepid]

\* me: getpid(); holder: the lock's owner; filepid: the PID file's content.
\* set says whether *r_old_pid was written.
sdp_ctrl_client_write_pid_file(c, me, holder, filepid, out) ==
    IF ~c.initialized
    THEN WpRes(c, SDP_ERROR_UNINITIALIZED, FALSE, 0, holder, filepid)
    ELSE IF out \in {"open_fail", "fcntl_fail", "lock_err"}
    THEN WpRes(c, SDP_ERROR_FILESYSTEM_OPERATION, FALSE, 0, holder, filepid)
    ELSE IF holder \notin {0, me} THEN
        \* lockf fails with EAGAIN: read the holder's pid from the file
        LET g == sdp_ctrl_client_get_running_pid(c, filepid, out)
        IN  IF g.rv # SDP_SUCCESS
            THEN WpRes(c, SDP_ERROR_FILESYSTEM_OPERATION, FALSE, 0, holder, filepid)
            ELSE WpRes(c, SDP_SUCCESS, TRUE, g.pid, holder, filepid)
    ELSE WpRes([c EXCEPT !.pid_lock_fd = PidFd], SDP_SUCCESS, TRUE, 0, me,
               write_at_start(filepid, snprintf_pid(me)))

PidRes(c, code, forked, holder, filepid, hnd, tried) ==
    [client |-> c, rv |-> code, forked |-> forked, holder |-> holder,
     pid_file |-> filepid, handlers |-> hnd, lock_tried |-> tried]

\* the child's side of daemonize once fork() has succeeded
sdp_ctrl_client_daemonize(c, holder, filepid, out, garbage) ==
    IF ~c.initialized
    THEN PidRes(c, SDP_ERROR_UNINITIALIZED, FALSE, holder, filepid, FALSE, FALSE)
    ELSE IF out = "fork_fail"
    THEN PidRes(c, SDP_ERROR_FORK, FALSE, holder, filepid, FALSE, FALSE)
    ELSE
    LET w == sdp_ctrl_client_write_pid_file(c, ChildPid, holder, filepid, out)
        old_pid == IF w.set THEN w.old_pid ELSE garbage
    IN  IF old_pid > 0
        THEN PidRes(w.client, SDP_ERROR_FORK, TRUE, w.holder, w.pid_file, FALSE, TRUE)
        ELSE IF out = "chdir_fail"
        THEN PidRes(w.client, SDP_ERROR_FILESYSTEM_OPERATION, TRUE, w.holder,
                    w.pid_file, FALSE, TRUE)
        ELSE IF out = "sig_fail"
        THEN PidRes(w.client, SDP_ERROR_FORK, TRUE, w.holder, w.pid_file, TRUE, TRUE)
        ELSE PidRes([w.client EXCEPT !.pid = ChildPid], SDP_SUCCESS, TRUE, w.holder,
                    w.pid_file, TRUE, TRUE)

sdp_ctrl_client_setup_pid(c, me, holder, filepid, out, garbage) ==
    IF ~c.initialized
    THEN PidRes(c, SDP_ERROR_UNINITIALIZED, FALSE, holder, filepid, FALSE, FALSE)
    ELSE IF sdp_ctrl_client_get_running_pid(c, filepid, out).pid # me THEN
        IF c.foreground = FALSE
        THEN sdp_ctrl_client_daemonize(c, holder, filepid, out, garbage)
        ELSE
        \* old_pid holds what get_running_pid read unless write_pid_file sets it
        LET w == sdp_ctrl_client_write_pid_file(c, me, holder, filepid, out)
            old_pid == IF w.set THEN w.old_pid
                       ELSE sdp_ctrl_client_get_running_pid(c, filepid, out).pid
        IN  IF old_pid > 0
            THEN PidRes(w.client, SDP_ERROR_PROC_EXISTS, FALSE, w.holder, w.pid_file,
                        FALSE, TRUE)
            ELSE PidRes(w.client, w.rv, FALSE, w.holder, w.pid_file, FALSE, TRUE)
    ELSE PidRes(c, SDP_SUCCESS, FALSE, holder, filepid, FALSE, FALSE)

StatusRes(c, code, holder, filepid) ==
    [client |-> c, rv |-> code, holder |-> holder, pid_file |-> filepid]

\* sdp_ctrl_client_status: no close() of the descriptor follows write_pid_file
sdp_ctrl_client_status(c, me, holder, filepid, out) ==
    IF ~c.initialized THEN StatusRes(c, SDP_ERROR_UNINITIALIZED, holder, filepid)
    ELSE
    LET w == sdp_ctrl_client_write_pid_file(c, me, holder, filepid, out)
    IN  IF w.rv # SDP_SUCCESS THEN StatusRes(w.client, w.rv, w.holder, w.pid_file)
        ELSE IF w.old_pid > 0
        THEN StatusRes(w.client, SDP_SUCCESS, w.holder, w.pid_file)
        ELSE StatusRes(w.client, SDP_ERROR, w.holder, w.pid_file)

\* kill(pid, sig): 0 if the process exists, -1 (ESRCH) if not
kill(pid, procs) == IF pid \in procs THEN 0 ELSE -1

\* variant of stop_next that sends SIGKILL without waiting
stop_next_no_wait(at, res, is_err) ==
    CASE at = "stop_term" -> "stop_probe1"
      [] at = "stop_probe1" -> IF res = 0 /\ is_err # 0 THEN "stopped" ELSE "stop_kill"
      [] at = "stop_sleep1" -> "stop_probe2"
      [] at = "stop_probe2" -> IF is_err # 0 THEN "stopped" ELSE "stop_kill"
      [] at = "stop_kill" -> "stop_probe3"
      [] at = "stop_probe3" -> IF res = 0 /\ is_err # 0 THEN "stopped" ELSE "stop_sleep2"
      [] at = "stop_sleep2" -> "stop_probe4"
      [] at = "stop_probe4" -> "stopped"

\* where sdp_ctrl_client_stop goes from each of its calls, given the results
\* of the last kill(old_pid, signal) and of the last kill(old_pid, 0)
stop_next(at, res, is_err) ==
    CASE at = "stop_term" -> "stop_probe1"
      [] at = "stop_probe1" -> IF res = 0 /\ is_err # 0 THEN "stopped" ELSE "stop_sleep1"
      [] at = "stop_sleep1" -> "stop_probe2"
      [] at = "stop_probe2" -> IF is_err # 0 THEN "stopped" ELSE "stop_kill"
      [] at = "stop_kill" -> "stop_probe3"
      [] at = "stop_probe3" -> IF res = 0 /\ is_err # 0 THEN "stopped" ELSE "stop_sleep2"
      [] at = "stop_sleep2" -> "stop_probe4"
      [] at = "stop_probe4" -> "stopped"

\* what sdp_ctrl_client_stop returns after a probe that ends it
stop_rv(at, is_err) == IF at = "stop_probe4" /\ is_err = 0 THEN SDP_ERROR ELSE SDP_SUCCESS

\* whether sdp_ctrl_client_start goes through sdp_ctrl_client_setup_pid
start_uses_setup_pid(c) == ~c.foreground

sdp_ctrl_client_start(c, me, holder, filepid, out, garbage) ==
    IF ~c.initialized
    THEN PidRes(c, SDP_ERROR_UNINITIALIZED, FALSE, holder, filepid, FALSE, FALSE)
    ELSE IF start_uses_setup_pid(c)
    THEN sdp_ctrl_client_setup_pid(c, me, holder, filepid, out, garbage)
    ELSE PidRes(c, SDP_SUCCESS, FALSE, holder, filepid, FALSE, FALSE)

(***************************************************************************)
(* State of one client process and its surroundings                        *)
(***************************************************************************)
\* fault is the fault injected into the credential store of the step, 0 if none
Ev(op, code, sent, note) ==
    [op |-> op, rv |-> code, tx |-> sent, note |-> note, fault |-> 0,
     restored |-> <<>>]

InitialDisk ==
    [files |-> [f \in TargetSet |-> 0], backups |-> [f \in TargetSet |-> 0]]

NoParent == "no parent"

\* sdp_ctrl_client_stop has not been called
NoStop == [old_pid |-> 0, res |-> 0, is_err |-> 0, did |-> <<>>]

\* the keys config_init reads are the ones stored in the client config file
KeysOnDisk(d) == d.files["config"]

(***************************************************************************)
(* Replay detection (replay_dbm.c): the digest cache and replay_check      *)
(***************************************************************************)
Digests == {"d1", "d2", "d3"}

SourceIps == {"ip1", "ip2"}

NoEntry == "no entry"

EmptyCache == [d \in Digests |-> NoEntry]

\* what can go wrong in one call: fko_get_spa_digest, the open of the cache
\* file, the store of the new entry
ReplayFaults == {"none", "digest_fail", "open_fail", "store_fail"}

ReplayRes(res, db) == [res |-> res, rpdb |-> db]

\* res after a failed store: the -1 assigned in the error branch is
\* overwritten by the res = 0 that follows it
store_failed_res == 0

\* db: the cache; db_key: the packet's digest; src_ip: the packet's source
replay_check(db, db_key, src_ip, fault) ==
    IF fault = "digest_fail" THEN ReplayRes(-1, db)
    ELSE IF fault = "open_fail" THEN ReplayRes(-1, db)
    ELSE IF db[db_key] # NoEntry THEN ReplayRes(1, db)
    ELSE IF fault = "store_fail" THEN ReplayRes(store_failed_res, db)
    ELSE ReplayRes(0, [db EXCEPT ![db_key] = src_ip])

NoReplay == [digest |-> "none", src_ip |-> "none", fault |-> "none", res |-> 0,
             zero |-> {}]

\* the client after sdp_ctrl_client_new, whatever process it is in
InitClient(cfgs) ==
    /\ config_disk \in cfgs
    /\ disk = InitialDisk
    /\ client = sdp_ctrl_client_config_init(config_disk, KeysOnDisk(InitialDisk))
    /\ ctx = "live"
    /\ pc = "idle"
    /\ rv = SDP_ERROR
    /\ msg_cnt = 0
    /\ inbox = <<>>
    /\ now = StartTime
    /\ sig = NoSignals
    /\ handlers = FALSE
    /\ parent = NoParent
    /\ ev = Ev("init", SDP_SUCCESS, <<>>, "none")
    /\ tx_unanswered = 0
    /\ retries = 0
    /\ nsig = 0
    /\ nbundle = 0
    /\ lock_tried = FALSE
    /\ stop = NoStop
    /\ rpdb = EmptyCache
    /\ replay = NoReplay

InitWith(cfgs) ==
    /\ InitClient(cfgs)
    /\ lock_holder \in {0, OtherPid}
    /\ pid_file = IF lock_holder = 0 THEN <<>> ELSE snprintf_pid(lock_holder)
    /\ proc = MyPid
    /\ alive = {lock_holder} \ {0}

HasRequest(sent) == \E i \in 1..Len(sent) : sent[i] \in Requests

Outstanding(c) == c.client_state \in KeepAliveStates \cup CredStates

\* transmissions of the outstanding request after a step from c to c2 that sent `sent`
CountTx(c, c2, sent) ==
    IF HasRequest(sent)
    THEN (IF Outstanding(c) THEN tx_unanswered + 1 ELSE 1)
    ELSE IF Outstanding(c) /\ c2.client_state = READY THEN 0
    ELSE tx_unanswered

\* retries of the outstanding request after a consider step from c with result r
CountRetries(c, r) ==
    IF Outstanding(c) /\ (HasRequest(r.tx) \/ r.rv \in {ERR_MESSAGE_MAKE, ERR_COM_SEND})
    THEN retries + 1
    ELSE IF ~Outstanding(c) /\ HasRequest(r.tx) THEN 0
    ELSE retries

(***************************************************************************)
(* sdp_ctrl_client_start                                                   *)
(***************************************************************************)
Start ==
    /\ pc = "idle"
    /\ \E out \in PidOutcomes, garbage \in Garbage :
        LET r == sdp_ctrl_client_start(client, MyPid, lock_holder, pid_file, out, garbage)
        IN  /\ client' = r.client
            /\ lock_holder' = r.holder
            /\ pid_file' = r.pid_file
            /\ handlers' = r.handlers
            /\ lock_tried' = r.lock_tried
            /\ proc' = IF r.forked THEN ChildPid ELSE MyPid
            /\ parent' = IF r.forked THEN SDP_SUCCESS ELSE NoParent
            /\ rv' = r.rv
            /\ pc' = IF r.rv = SDP_SUCCESS THEN "connect" ELSE "exited"
            /\ ev' = Ev("start", r.rv, <<>>, out)
    /\ UNCHANGED <<rpdb, replay, alive, stop, ctx, config_disk, disk, msg_cnt, inbox, now, sig, tx_unanswered,
                   retries, nsig, nbundle>>

(***************************************************************************)
(* sdp_ctrl_client_loop, one action per call made by an iteration          *)
(***************************************************************************)
\* variant of stamp_connection that leaves last_contact as it was
stamp_connection_start_only(c, t) == [c EXCEPT !.initial_conn_time = t]

\* client->initial_conn_time = client->last_contact = time(NULL)
stamp_connection(c, t) == [c EXCEPT !.initial_conn_time = t, !.last_contact = t]

LoopConnect ==
    /\ pc = "connect"
    /\ IF client.conn_state = SDP_COM_DISCONNECTED
       THEN \E ok \in BOOLEAN :
              IF ok
              THEN /\ client' = stamp_connection(
                                  [client EXCEPT !.conn_state = SDP_COM_CONNECTED], now)
                   /\ rv' = SDP_SUCCESS
                   /\ pc' = "inbox"
                   /\ ev' = Ev("connect", SDP_SUCCESS, <<>>, "none")
              ELSE /\ client' = client
                   /\ rv' = ERR_COM_CONNECT
                   /\ pc' = "break"
                   /\ ev' = Ev("connect", ERR_COM_CONNECT, <<>>, "none")
       ELSE /\ pc' = "inbox"
            /\ ev' = Ev("connected", SDP_SUCCESS, <<>>, "none")
            /\ UNCHANGED <<client, rv>>
    /\ msg_cnt' = 0
    /\ inbox' = IF client.conn_state = SDP_COM_DISCONNECTED THEN <<>> ELSE inbox
    /\ UNCHANGED <<rpdb, replay, alive, stop, ctx, config_disk, disk, now, sig, handlers, lock_holder, pid_file,
                   proc, parent, tx_unanswered, retries, nsig, nbundle, lock_tried>>

\* variant of inbox_room that lets one message more through
inbox_room_one_more(c, cnt) == cnt <= c.message_queue_len

\* check_inbox's while condition
inbox_room(c, cnt) == cnt < c.message_queue_len

\* check_inbox: the while condition fails
InboxDone ==
    /\ pc = "inbox"
    /\ ~inbox_room(client, msg_cnt)
    /\ pc' = "cred"
    /\ rv' = SDP_SUCCESS
    /\ ev' = Ev("check_inbox", SDP_SUCCESS, <<>>, "full")
    /\ UNCHANGED <<rpdb, replay, alive, stop, client, ctx, config_disk, disk, msg_cnt, inbox, now, sig, handlers,
                   lock_holder, pid_file, proc, parent, tx_unanswered, retries, nsig,
                   nbundle, lock_tried>>

\* check_inbox: sdp_com_get_msg returns no bytes
InboxEmpty ==
    /\ pc = "inbox"
    /\ inbox_room(client, msg_cnt)
    /\ inbox = <<>>
    /\ pc' = "cred"
    /\ rv' = SDP_SUCCESS
    /\ ev' = Ev("check_inbox", SDP_SUCCESS, <<>>, "empty")
    /\ UNCHANGED <<rpdb, replay, alive, stop, client, ctx, config_disk, disk, msg_cnt, inbox, now, sig, handlers,
                   lock_holder, pid_file, proc, parent, tx_unanswered, retries, nsig,
                   nbundle, lock_tried>>

\* check_inbox: sdp_com_get_msg fails
InboxTransport ==
    /\ pc = "inbox"
    /\ inbox_room(client, msg_cnt)
    /\ pc' = "break"
    /\ rv' = ERR_COM_GET
    /\ ev' = Ev("check_inbox", ERR_COM_GET, <<>>, "get_msg")
    /\ UNCHANGED <<rpdb, replay, alive, stop, client, ctx, config_disk, disk, msg_cnt, inbox, now, sig, handlers,
                   lock_holder, pid_file, proc, parent, tx_unanswered, retries, nsig,
                   nbundle, lock_tried>>

InboxKeepAlive ==
    /\ pc = "inbox"
    /\ inbox_room(client, msg_cnt)
    /\ inbox # <<>>
    /\ Head(inbox).tag = KEEP_ALIVE_FULFILLING
    /\ LET c2 == sdp_ctrl_client_process_keep_alive(client, now)
       IN  /\ client' = c2
           /\ tx_unanswered' = CountTx(client, c2, <<>>)
           /\ retries' = IF Outstanding(client) /\ c2.client_state = READY
                         THEN 0 ELSE retries
    /\ inbox' = Tail(inbox)
    /\ msg_cnt' = msg_cnt + 1
    /\ rv' = SDP_SUCCESS
    /\ ev' = Ev("process_keep_alive", SDP_SUCCESS, <<>>, "none")
    /\ UNCHANGED <<rpdb, replay, alive, stop, ctx, config_disk, disk, pc, now, sig, handlers, lock_holder,
                   pid_file, proc, parent, nsig, nbundle, lock_tried>>

InboxCreds ==
    /\ pc = "inbox"
    /\ inbox_room(client, msg_cnt)
    /\ inbox # <<>>
    /\ Head(inbox).tag = CREDS_FULFILLING
    /\ \E fail \in FailPoints, out \in SendOutcomes :
        LET r == sdp_ctrl_client_process_cred_update(client, disk, Head(inbox).creds,
                                                     now, fail, out)
        IN  /\ client' = r.client
            /\ disk' = r.disk
            /\ rv' = r.rv
            /\ pc' = IF r.rv = SDP_SUCCESS THEN "inbox" ELSE "break"
            /\ tx_unanswered' = CountTx(client, r.client, r.tx)
            /\ retries' = IF Outstanding(client) /\ r.client.client_state = READY
                          THEN 0 ELSE retries
            /\ ev' = [Ev("process_cred_update", r.rv, r.tx, out)
                        EXCEPT !.fault = fail, !.restored = r.store.restored]
    /\ inbox' = Tail(inbox)
    /\ msg_cnt' = msg_cnt + 1
    /\ UNCHANGED <<rpdb, replay, alive, stop, ctx, config_disk, now, sig, handlers, lock_holder, pid_file, proc,
                   parent, nsig, nbundle, lock_tried>>

\* variant of unknown_result that reports the message as an error
unknown_result_fatal(c) == [client |-> c, rv |-> SDP_ERROR, tx |-> <<>>]

\* check_inbox's default case: the message is logged and dropped
unknown_result(c) == [client |-> c, rv |-> SDP_SUCCESS, tx |-> <<>>]

\* any other envelope: sdp_message_process rejects it, or yields BAD_RESULT or a
\* tag the switch has no case for
InboxOther ==
    /\ pc = "inbox"
    /\ inbox_room(client, msg_cnt)
    /\ inbox # <<>>
    /\ Head(inbox).tag = UNRECOGNISED
    /\ \E result \in {BAD_RESULT, UNKNOWN_RESULT, MALFORMED} :
        LET r == IF result = MALFORMED
                 THEN [client |-> client, rv |-> ERR_MESSAGE_PROCESS, tx |-> <<>>]
                 ELSE unknown_result(client)
        IN  /\ client' = r.client
            /\ rv' = r.rv
            /\ pc' = IF r.rv = SDP_SUCCESS THEN "inbox" ELSE "break"
            /\ ev' = Ev("message_process", r.rv, r.tx, result)
    /\ inbox' = Tail(inbox)
    /\ msg_cnt' = msg_cnt + 1
    /\ UNCHANGED <<rpdb, replay, alive, stop, ctx, config_disk, disk, now, sig, handlers, lock_holder,
                   pid_file, proc, parent, tx_unanswered, retries, nsig, nbundle,
                   lock_tried>>

\* the exit test of a client that is not to remain connected
one_shot_done(c) == ~c.remain_connected /\ c.last_cred_update > 0

\* consider_cred_update and the one-shot exit test that follows it
LoopCred ==
    /\ pc = "cred"
    /\ \E out \in SendOutcomes :
        LET r == sdp_ctrl_client_consider_cred_update(client, now, out)
        IN  /\ client' = r.client
            /\ rv' = r.rv
            /\ pc' = IF r.rv # SDP_SUCCESS THEN "break"
                     ELSE IF one_shot_done(r.client) THEN "break"
                     ELSE "signals"
            /\ tx_unanswered' = CountTx(client, r.client, r.tx)
            /\ retries' = CountRetries(client, r)
            /\ ev' = Ev("consider_cred_update", r.rv, r.tx, out)
    /\ UNCHANGED <<rpdb, replay, alive, stop, ctx, config_disk, disk, msg_cnt, inbox, now, sig, handlers,
                   lock_holder, pid_file, proc, parent, nsig, nbundle, lock_tried>>

LoopSignals ==
    /\ pc = "signals"
    /\ \E out \in RestartOutcomes :
        LET r == sdp_ctrl_client_handle_signals(sig, client, config_disk,
                                                KeysOnDisk(disk), out)
        IN  /\ sig' = r.sig
            /\ client' = r.client
            /\ ctx' = IF r.freed THEN "freed" ELSE ctx
            /\ rv' = r.rv
            /\ pc' = IF r.rv = SDP_SUCCESS THEN "keepalive" ELSE "break"
            /\ tx_unanswered' = IF r.acted = "SIGHUP" /\ r.rv = SDP_SUCCESS
                                THEN 0 ELSE tx_unanswered
            /\ retries' = IF r.acted = "SIGHUP" /\ r.rv = SDP_SUCCESS THEN 0 ELSE retries
            /\ ev' = Ev("handle_signals", r.rv, <<>>, r.acted)
    /\ UNCHANGED <<rpdb, replay, alive, stop, config_disk, disk, msg_cnt, inbox, now, handlers, lock_holder,
                   pid_file, proc, parent, nsig, nbundle, lock_tried>>

LoopKeepAlive ==
    /\ pc = "keepalive"
    /\ \E out \in SendOutcomes :
        LET r == sdp_ctrl_client_consider_keep_alive(client, now, out)
        IN  /\ client' = r.client
            /\ rv' = r.rv
            /\ pc' = IF r.rv = SDP_SUCCESS THEN "sleep" ELSE "break"
            /\ tx_unanswered' = CountTx(client, r.client, r.tx)
            /\ retries' = CountRetries(client, r)
            /\ ev' = Ev("consider_keep_alive", r.rv, r.tx, out)
    /\ UNCHANGED <<rpdb, replay, alive, stop, ctx, config_disk, disk, msg_cnt, inbox, now, sig, handlers,
                   lock_holder, pid_file, proc, parent, nsig, nbundle, lock_tried>>

LoopSleep ==
    /\ pc = "sleep"
    /\ now < StartTime + MaxTicks
    /\ now' = now + 1
    /\ pc' = "connect"
    /\ ev' = Ev("sleep", SDP_SUCCESS, <<>>, "none")
    /\ UNCHANGED <<rpdb, replay, alive, stop, client, ctx, config_disk, disk, rv, msg_cnt, inbox, sig, handlers,
                   lock_holder, pid_file, proc, parent, tx_unanswered, retries, nsig,
                   nbundle, lock_tried>>

\* after the loop: sdp_com_disconnect(client->com) and return rv.  Once the
\* context has been freed the read of client->com is undefined: the call may
\* return or the process may crash.
LoopBreak ==
    /\ pc = "break"
    /\ IF ctx = "live"
       THEN /\ client' = sdp_com_disconnect(client)
            /\ pc' = "done"
       ELSE /\ client' = client
            /\ pc' \in {"done", "crashed"}
    /\ ev' = Ev("return", rv, <<>>, "none")
    /\ UNCHANGED <<rpdb, replay, alive, stop, ctx, config_disk, disk, rv, msg_cnt, inbox, now, sig, handlers,
                   lock_holder, pid_file, proc, parent, tx_unanswered, retries, nsig,
                   nbundle, lock_tried>>

(***************************************************************************)
(* The surroundings: controller, signals, the operator, other processes    *)
(***************************************************************************)
Msg(tag, creds) == [tag |-> tag, creds |-> creds]

\* the controller sends any message at any time, solicited or not
Deliver ==
    /\ pc = "inbox"
    /\ msg_cnt = 0
    /\ Len(inbox) < MaxQueue
    /\ \E tag \in Tags :
        IF tag = CREDS_FULFILLING
        THEN /\ nbundle < MaxBundles
             /\ nbundle' = nbundle + 1
             /\ inbox' = Append(inbox, Msg(tag, nbundle + 1))
        ELSE /\ nbundle' = nbundle
             /\ inbox' = Append(inbox, Msg(tag, 0))
    /\ UNCHANGED <<rpdb, replay, alive, stop, client, ctx, config_disk, disk, pc, rv, msg_cnt, now, sig, handlers,
                   lock_holder, pid_file, proc, parent, ev, tx_unanswered, retries,
                   nsig, lock_tried>>

\* the transport loses the session and marks it disconnected; what was
\* queued is lost with it
Drop ==
    /\ pc = "inbox"
    /\ msg_cnt = 0
    /\ client.conn_state = SDP_COM_CONNECTED
    /\ client' = sdp_com_disconnect(client)
    /\ inbox' = <<>>
    /\ UNCHANGED <<rpdb, replay, alive, stop, ctx, config_disk, disk, pc, rv, msg_cnt, now, sig,
                   handlers, lock_holder, pid_file, proc, parent, ev, tx_unanswered,
                   retries, nsig, nbundle, lock_tried>>

\* a controller that only answers: one reply to the outstanding request, or
\* one envelope the client does not recognise
Reply ==
    /\ pc = "inbox"
    /\ msg_cnt = 0
    /\ inbox = <<>>
    /\ Outstanding(client)
    /\ \E other \in BOOLEAN :
        IF other
        THEN /\ nbundle' = nbundle
             /\ inbox' = <<Msg(UNRECOGNISED, 0)>>
        ELSE IF client.client_state \in CredStates
        THEN /\ nbundle < MaxBundles
             /\ nbundle' = nbundle + 1
             /\ inbox' = <<Msg(CREDS_FULFILLING, nbundle + 1)>>
        ELSE /\ nbundle' = nbundle
             /\ inbox' = <<Msg(KEEP_ALIVE_FULFILLING, 0)>>
    /\ UNCHANGED <<rpdb, replay, alive, stop, client, ctx, config_disk, disk, pc, rv, msg_cnt, now, sig, handlers,
                   lock_holder, pid_file, proc, parent, ev, tx_unanswered, retries,
                   nsig, lock_tried>>

\* a signal is delivered to the process; it is seen at the next handle_signals
Signal ==
    /\ pc = "signals"
    /\ handlers
    /\ nsig < MaxSignals
    /\ \E sg \in Signals : sig' = sdp_ctrl_client_sig_handler(sig, sg)
    /\ nsig' = nsig + 1
    /\ UNCHANGED <<rpdb, replay, alive, stop, client, ctx, config_disk, disk, pc, rv, msg_cnt, inbox, now,
                   handlers, lock_holder, pid_file, proc, parent, ev, tx_unanswered,
                   retries, nbundle, lock_tried>>

\* the operator changes keep_alive_interval in the config file
EditConfig ==
    /\ pc = "signals"
    /\ \E k \in KeepAliveIntervals \ {config_disk.keep_alive_interval} :
        config_disk' = [config_disk EXCEPT !.keep_alive_interval = k]
    /\ UNCHANGED <<rpdb, replay, alive, stop, client, ctx, disk, pc, rv, msg_cnt, inbox, now, sig, handlers,
                   lock_holder, pid_file, proc, parent, ev, tx_unanswered, retries,
                   nsig, nbundle, lock_tried>>

\* the other instance exits: the OS drops its lock, the file keeps its pid
OtherExit ==
    /\ pc = "idle"
    /\ lock_holder = OtherPid
    /\ lock_holder' = 0
    /\ alive' = alive \ {OtherPid}
    /\ UNCHANGED <<rpdb, replay, stop, client, ctx, config_disk, disk, pc, rv, msg_cnt, inbox, now, sig,
                   handlers, pid_file, proc, parent, ev, tx_unanswered, retries, nsig,
                   nbundle, lock_tried>>

(***************************************************************************)
(* sdp_ctrl_client_status and sdp_ctrl_client_stop, called by a process of *)
(* its own (the command line's status and stop)                            *)
(***************************************************************************)
AdminFrame ==
    UNCHANGED <<rpdb, replay, ctx, config_disk, disk, msg_cnt, inbox, sig, handlers, proc, parent,
                tx_unanswered, retries, nsig, nbundle, lock_tried>>

StatusOutcomes == {"ok", "open_fail", "lock_err", "read_fail"}

Status ==
    /\ pc = "idle"
    /\ \E out \in StatusOutcomes :
        LET r == sdp_ctrl_client_status(client, proc, lock_holder, pid_file, out)
        IN  /\ client' = r.client
            /\ lock_holder' = r.holder
            /\ pid_file' = r.pid_file
            /\ rv' = r.rv
            /\ ev' = Ev("status", r.rv, <<>>, out)
    /\ pc' = "status_done"
    /\ UNCHANGED <<now, alive, stop>>
    /\ AdminFrame

\* stop reads the recorded pid
StopRead ==
    /\ pc = "idle"
    /\ \E out \in {"ok", "read_fail"} :
        LET g == sdp_ctrl_client_get_running_pid(client, pid_file, out)
        IN  /\ stop' = [NoStop EXCEPT !.old_pid = g.pid]
            /\ pc' = IF g.pid > 0 THEN "stop_term" ELSE "stopped"
            /\ rv' = IF g.pid > 0 THEN rv ELSE SDP_ERROR
            /\ ev' = Ev("get_running_pid", g.rv, <<>>, out)
    /\ UNCHANGED <<rpdb, replay, client, now, lock_holder, pid_file, alive>>
    /\ AdminFrame

\* res = kill(old_pid, SIGTERM) or res = kill(old_pid, SIGKILL)
StopSignal ==
    /\ pc \in {"stop_term", "stop_kill"}
    /\ LET res == kill(stop.old_pid, alive)
       IN  /\ stop' = [stop EXCEPT !.res = res,
                            !.did = Append(@, IF pc = "stop_term" THEN "TERM" ELSE "KILL")]
           /\ pc' = stop_next(pc, res, stop.is_err)
           /\ ev' = Ev("kill", res, <<>>, pc)
    /\ UNCHANGED <<rpdb, replay, client, rv, now, lock_holder, pid_file, alive>>
    /\ AdminFrame

\* is_err = kill(old_pid, 0)
StopProbe ==
    /\ pc \in {"stop_probe1", "stop_probe2", "stop_probe3", "stop_probe4"}
    /\ LET is_err == kill(stop.old_pid, alive)
           next == stop_next(pc, stop.res, is_err)
       IN  /\ stop' = [stop EXCEPT !.is_err = is_err,
                            !.did = Append(@, IF is_err = 0 THEN "alive" ELSE "gone")]
           /\ pc' = next
           /\ rv' = IF next = "stopped" THEN stop_rv(pc, is_err) ELSE rv
           /\ ev' = Ev("probe", is_err, <<>>, pc)
    /\ UNCHANGED <<rpdb, replay, client, now, lock_holder, pid_file, alive>>
    /\ AdminFrame

\* sleep(1)
StopSleep ==
    /\ pc \in {"stop_sleep1", "stop_sleep2"}
    /\ now' = now + 1
    /\ stop' = [stop EXCEPT !.did = Append(@, "sleep")]
    /\ pc' = stop_next(pc, stop.res, stop.is_err)
    /\ ev' = Ev("sleep", SDP_SUCCESS, <<>>, pc)
    /\ UNCHANGED <<rpdb, replay, client, rv, lock_holder, pid_file, alive>>
    /\ AdminFrame

StopPcs ==
    {"stop_term", "stop_probe1", "stop_sleep1", "stop_probe2", "stop_kill",
     "stop_probe3", "stop_sleep2", "stop_probe4"}

\* the process stop is after exits, at any moment: the OS drops its lock
TargetExit ==
    /\ pc \in StopPcs
    /\ stop.old_pid \in alive
    /\ alive' = alive \ {stop.old_pid}
    /\ lock_holder' = IF lock_holder = stop.old_pid THEN 0 ELSE lock_holder
    /\ UNCHANGED <<rpdb, replay, client, pc, rv, now, pid_file, ev, stop>>
    /\ AdminFrame

\* the process that called status or stop exits: the OS drops its lock
CallerExit ==
    /\ pc \in {"status_done", "stopped"}
    /\ pc' = "exited"
    /\ lock_holder' = IF lock_holder = proc THEN 0 ELSE lock_holder
    /\ UNCHANGED <<rpdb, replay, client, rv, now, pid_file, ev, alive, stop>>
    /\ AdminFrame

(***************************************************************************)
(* Specifications                                                          *)
(***************************************************************************)
ForegroundConfigs ==
    {cfg \in Configs : cfg.foreground /\ cfg.keep_alive_interval = 1
                       /\ cfg.cred_update_interval = 3}
DaemonConfigs ==
    {cfg \in Configs : ~cfg.foreground /\ cfg.initial_req_retry_interval = 1
                       /\ cfg.message_queue_len = 1 /\ cfg.keep_alive_interval = 1
                       /\ cfg.cred_update_interval = 3}

Loop ==
    \/ LoopConnect
    \/ InboxDone
    \/ InboxEmpty
    \/ InboxTransport
    \/ InboxKeepAlive
    \/ InboxCreds
    \/ InboxOther
    \/ LoopCred
    \/ LoopSignals
    \/ LoopKeepAlive
    \/ LoopSleep
    \/ LoopBreak

\* a client started in the foreground, facing an arbitrary controller
Init == InitWith(ForegroundConfigs)

Next ==
    \/ Start
    \/ Loop
    \/ Deliver
    \/ OtherExit

Spec == Init /\ [][Next]_vars

\* a foreground client that is not to remain connected, for every
\* cred_update_interval
OneShotConfigs ==
    {cfg \in Configs : cfg.foreground /\ ~cfg.remain_connected
                       /\ cfg.keep_alive_interval = 1}

InitOneShot == InitWith(OneShotConfigs)

SpecOneShot == InitOneShot /\ [][Next]_vars

\* the one-shot clients whose last retry deadline lies within MaxTicks
\* seconds of the start: requests at StartTime and StartTime + 1, the verdict
\* at StartTime + 3
OneShotLiveConfigs ==
    {cfg \in OneShotConfigs : /\ cfg.initial_req_retry_interval = 1
                              /\ cfg.max_req_attempts <= 2}

InitOneShotLive == InitWith(OneShotLiveConfigs)

\* the process is scheduled: a call that can be made is made, and sleep(1)
\* returns; the controller is under no obligation
SpecOneShotLive ==
    InitOneShotLive /\ [][Next]_vars /\ WF_vars(Start) /\ WF_vars(Loop)

\* a foreground client whose session the transport may lose
DropConfigs ==
    {cfg \in ForegroundConfigs : /\ cfg.remain_connected /\ cfg.message_queue_len = 1
                                 /\ cfg.initial_req_retry_interval = 1
                                 /\ cfg.max_req_attempts = 2}

InitDrop == InitWith(DropConfigs)

NextDrop ==
    \/ Start
    \/ Loop
    \/ Deliver
    \/ Drop
    \/ OtherExit

SpecDrop == InitDrop /\ [][NextDrop]_vars

\* a client started as a daemon, with signals and config edits
InitDaemon == InitWith(DaemonConfigs)

NextDaemon ==
    \/ Start
    \/ Loop
    \/ Reply
    \/ Signal
    \/ EditConfig
    \/ OtherExit

SpecDaemon == InitDaemon /\ [][NextDaemon]_vars

\* start alone, in both modes, up to the entry of the loop
InitStart == InitWith(Configs)

NextStart ==
    \/ Start
    \/ OtherExit

SpecStart == InitStart /\ [][NextStart]_vars

\* status and stop: the caller's pid, the PID file it finds and the
\* processes that exist vary
AdminConfigs ==
    {cfg \in Configs : /\ cfg.foreground /\ cfg.remain_connected
                       /\ cfg.keep_alive_interval = 1 /\ cfg.cred_update_interval = 3
                       /\ cfg.initial_req_retry_interval = 1
                       /\ cfg.max_req_attempts = 1 /\ cfg.message_queue_len = 1}

\* pids of callers: some need more characters than the write buffer has
CallerPids == {MyPid, 99999, 100000, 4194304}

\* pids a PID file may record
RecordedPids == {OtherPid, 54321}

\* what the PID file may hold before anybody writes it
OldTexts == {<<>>} \cup {snprintf_pid(p) : p \in RecordedPids}

InitAdmin ==
    /\ InitClient(AdminConfigs)
    /\ proc \in CallerPids
    /\ lock_holder \in {0, OtherPid}
    /\ \E old \in OldTexts :
        pid_file = IF lock_holder = 0 THEN old
                   ELSE write_at_start(old, snprintf_pid(lock_holder))
    /\ alive \in {procs \in SUBSET RecordedPids : lock_holder # 0 => lock_holder \in procs}

NextAdmin ==
    \/ Status
    \/ StopRead
    \/ StopSignal
    \/ StopProbe
    \/ StopSleep
    \/ TargetExit
    \/ CallerExit
    \/ OtherExit

SpecAdmin == InitAdmin /\ [][NextAdmin]_vars

\* the server receives a packet and calls replay_check on it
ReplayCheck ==
    /\ \E d \in Digests, ip \in SourceIps, fault \in ReplayFaults :
        LET r == replay_check(rpdb, d, ip, fault)
        IN  /\ rpdb' = r.rpdb
            /\ replay' = [digest |-> d, src_ip |-> ip, fault |-> fault, res |-> r.res,
                          zero |-> IF r.res = 0 THEN replay.zero \cup {d}
                                   ELSE replay.zero]
    /\ UNCHANGED <<client, ctx, config_disk, disk, pc, rv, msg_cnt, inbox, now, sig,
                   handlers, lock_holder, pid_file, proc, parent, ev, tx_unanswered,
                   retries, nsig, nbundle, lock_tried, alive, stop>>

\* replay_check called on any sequence of packets
InitReplay == InitWith(AdminConfigs) /\ lock_holder = 0

NextReplay == ReplayCheck

SpecReplay == InitReplay /\ [][NextReplay]_vars

(***************************************************************************)
(* The public request API called directly by an embedder, in any order     *)
(***************************************************************************)
ApiConfigs ==
    {cfg \in Configs : cfg.foreground /\ cfg.remain_connected
                       /\ cfg.message_queue_len = 1 /\ cfg.cred_update_interval = 3}

InitApi ==
    /\ InitWith(ApiConfigs)
    /\ lock_holder = 0

ApiFrame ==
    UNCHANGED <<rpdb, replay, alive, stop, ctx, config_disk, pc, rv, msg_cnt, inbox, sig, handlers, lock_holder,
                pid_file, proc, parent, nsig, lock_tried>>

ApiCall(r, op, out) ==
    /\ client' = r.client
    /\ tx_unanswered' = CountTx(client, r.client, r.tx)
    /\ retries' = retries
    /\ ev' = Ev(op, r.rv, r.tx, out)
    /\ UNCHANGED <<disk, now, nbundle>>
    /\ ApiFrame

ApiConnect ==
    /\ client.conn_state = SDP_COM_DISCONNECTED
    /\ ApiCall(Res([client EXCEPT !.conn_state = SDP_COM_CONNECTED], SDP_SUCCESS, <<>>),
               "connect", "ok")

ApiDisconnect ==
    /\ client.conn_state = SDP_COM_CONNECTED
    /\ ApiCall(Res(sdp_com_disconnect(client), SDP_SUCCESS, <<>>), "disconnect", "ok")

\* direct calls are capped so that they cannot grow the request counter for ever
ApiRequestKeepAlive ==
    /\ client.req_attempts <= MaxAttempts
    /\ \E out \in SendOutcomes :
        ApiCall(sdp_ctrl_client_request_keep_alive(client, now, out),
                "request_keep_alive", out)

ApiRequestCredUpdate ==
    /\ client.req_attempts <= MaxAttempts
    /\ \E out \in SendOutcomes :
        ApiCall(sdp_ctrl_client_request_cred_update(client, now, out),
                "request_cred_update", out)

ApiConsiderKeepAlive ==
    /\ client.req_attempts <= MaxAttempts
    /\ \E out \in SendOutcomes :
        ApiCall(sdp_ctrl_client_consider_keep_alive(client, now, out),
                "consider_keep_alive", out)

ApiConsiderCredUpdate ==
    /\ client.req_attempts <= MaxAttempts
    /\ \E out \in SendOutcomes :
        ApiCall(sdp_ctrl_client_consider_cred_update(client, now, out),
                "consider_cred_update", out)

ApiProcessKeepAlive ==
    ApiCall(Res(sdp_ctrl_client_process_keep_alive(client, now), SDP_SUCCESS, <<>>),
            "process_keep_alive", "ok")

ApiTick ==
    /\ now < StartTime + ApiTicks
    /\ now' = now + 1
    /\ UNCHANGED <<client, disk, ev, tx_unanswered, retries, nbundle>>
    /\ ApiFrame

NextApi ==
    \/ ApiConnect
    \/ ApiDisconnect
    \/ ApiRequestKeepAlive
    \/ ApiRequestCredUpdate
    \/ ApiConsiderKeepAlive
    \/ ApiConsiderCredUpdate
    \/ ApiProcessKeepAlive
    \/ ApiTick

SpecApi == InitApi /\ [][NextApi]_vars

(***************************************************************************)
(* Properties                                                              *)
(***************************************************************************)
Live == ctx = "live" /\ client.initialized

\* a consider step is about to run at the retry deadline of its own request,
\* after max_req_attempts transmissions without a matching reply
AtCapDeadline ==
    /\ \/ pc = "cred" /\ client.client_state \in CredStates
       \/ pc = "keepalive" /\ client.client_state \in KeepAliveStates
    /\ Live
    /\ client.conn_state = SDP_COM_CONNECTED
    /\ tx_unanswered = client.max_req_attempts
    /\ now >= client.last_req_time + client.req_retry_interval

\* C1: one unanswered request is never transmitted more than max_req_attempts
\* times; at the retry deadline that follows the max_req_attempts-th
\* transmission the consider step sends nothing, moves client_state to
\* TIME_TO_QUIT and breaks the loop with SDP_ERROR_MANY_FAILED_REQS, which is
\* what the loop returns; once in TIME_TO_QUIT no request is transmitted.
C1_AttemptCap ==
    /\ [](Live => tx_unanswered <= client.max_req_attempts)
    /\ [][AtCapDeadline =>
            /\ client'.client_state = TIME_TO_QUIT
            /\ rv' = SDP_ERROR_MANY_FAILED_REQS
            /\ pc' = "break"
            /\ ev'.tx = <<>>]_vars
    /\ [][client.client_state = TIME_TO_QUIT =>
            /\ ev' = ev \/ ~HasRequest(ev'.tx)
            /\ client'.client_state = TIME_TO_QUIT
            /\ rv' = SDP_ERROR_MANY_FAILED_REQS]_vars

\* the loop has returned SDP_ERROR_MANY_FAILED_REQS after a request and one
\* retry of it, both unanswered, with max_req_attempts = 2
C1_Witness ==
    /\ pc = "done"
    /\ rv = SDP_ERROR_MANY_FAILED_REQS
    /\ client.client_state = TIME_TO_QUIT
    /\ client.max_req_attempts = 2
    /\ tx_unanswered = 2
    /\ retries = 1

RECURSIVE Pow2(_)
Pow2(k) == IF k = 0 THEN 1 ELSE 2 * Pow2(k - 1)

\* C2: while a request is unanswered, after its k-th retry req_retry_interval
\* is initial_req_retry_interval * 2^k; whenever the client is in READY, and
\* so after the matching reply has been processed, it is
\* initial_req_retry_interval again.
C2_Backoff ==
    /\ [](Live /\ Outstanding(client) =>
            client.req_retry_interval =
                client.initial_req_retry_interval * Pow2(retries))
    /\ [](Live /\ client.client_state = READY =>
            client.req_retry_interval = client.initial_req_retry_interval)
    /\ [][Live /\ Outstanding(client) /\ client'.client_state = READY =>
            client'.req_retry_interval = client.initial_req_retry_interval]_vars

\* a request has been retried twice, which quadrupled an initial interval of 1
C2_Witness ==
    /\ retries = 2
    /\ tx_unanswered = 3
    /\ Outstanding(client)
    /\ client.initial_req_retry_interval = 1
    /\ client.req_retry_interval = 4

\* check_inbox is about to hand a credential bundle to process_cred_update
AtCredBundle ==
    /\ pc = "inbox"
    /\ inbox_room(client, msg_cnt)
    /\ inbox # <<>>
    /\ Head(inbox).tag = CREDS_FULFILLING

C4_SingleInstance ==
    [][pc = "idle" /\ pc' # "idle" =>
            IF lock_holder = OtherPid
            THEN rv' = SDP_ERROR_PROC_EXISTS /\ pc' = "exited"
            ELSE ev'.note = "ok" => rv' = SDP_SUCCESS /\ pc' = "connect"]_vars

\* C5: the process that is in the control loop went through the PID-file
\* lock step (sdp_ctrl_client_write_pid_file) before entering it.
C5_LockBeforeLoop == pc = "connect" => lock_tried

\* C10: last_cred_update changes only in a process_cred_update that stored
\* the bundle and then made and sent the fulfilled acknowledgement; when the
\* store or the acknowledgement fails it keeps its value.
C10_StampAfterAck ==
    [][client'.last_cred_update # client.last_cred_update =>
            /\ ev'.op = "process_cred_update"
            /\ ev'.rv = SDP_SUCCESS
            /\ ev'.tx = <<MSG_CRED_FULFILLED>>]_vars

KeepAliveAllowed == {READY, KEEP_ALIVE_REQUESTING, KEEP_ALIVE_UNFULFILLED}
CredAllowed == {READY, CRED_REQUESTING, CRED_UNFULFILLED}

\* the step is a call of the API (every call records itself in ev; only the
\* passing of time does not)
ApiStep == now' = now

Sends(m) == m \in Range(ev'.tx)

\* C6 as stated: a keep-alive request is transmitted only from READY or a
\* keep-alive state and a credential request only from READY or a credential
\* state; a request call made in any other state returns SDP_ERROR_STATE,
\* transmits nothing and changes no request variable.
C6_Original ==
    [][ApiStep =>
        /\ Sends(MSG_KEEP_ALIVE) => client.client_state \in KeepAliveAllowed
        /\ Sends(MSG_CRED_REQUESTING) => client.client_state \in CredAllowed
        /\ ev'.op = "request_keep_alive" /\ client.client_state \notin KeepAliveAllowed
              => ev'.rv = SDP_ERROR_STATE /\ ev'.tx = <<>> /\ client' = client
        /\ ev'.op = "request_cred_update" /\ client.client_state \notin CredAllowed
              => ev'.rv = SDP_ERROR_STATE /\ ev'.tx = <<>> /\ client' = client]_vars

\* C6, amended: requests are transmitted only from the allowed states; a
\* request call made in any other state transmits nothing and changes
\* nothing, and returns SDP_ERROR_STATE when the connection is up and
\* SDP_ERROR_CONN_DOWN when it is down.
C6_StateGating ==
    [][ApiStep =>
        /\ Sends(MSG_KEEP_ALIVE) => client.client_state \in KeepAliveAllowed
        /\ Sends(MSG_CRED_REQUESTING) => client.client_state \in CredAllowed
        /\ \/ ev'.op = "request_keep_alive" /\ client.client_state \notin KeepAliveAllowed
           \/ ev'.op = "request_cred_update" /\ client.client_state \notin CredAllowed
           => /\ ev'.rv = IF client.conn_state = SDP_COM_CONNECTED
                          THEN SDP_ERROR_STATE ELSE SDP_ERROR_CONN_DOWN
              /\ ev'.tx = <<>>
              /\ client' = client]_vars

\* a keep-alive request made while a credential request is outstanding on a
\* live connection has been refused with SDP_ERROR_STATE
C6_Witness ==
    /\ ev.op = "request_keep_alive"
    /\ ev.rv = SDP_ERROR_STATE
    /\ client.client_state = CRED_REQUESTING
    /\ client.conn_state = SDP_COM_CONNECTED

\* C7: no step that starts with the connection down transmits a keep-alive
\* or credential request; a request call made while the connection is down
\* returns SDP_ERROR_CONN_DOWN and changes nothing in the context.
C7_DisconnectGating ==
    [][ApiStep /\ client.conn_state = SDP_COM_DISCONNECTED =>
        /\ ~HasRequest(ev'.tx)
        /\ ev'.op \in {"request_keep_alive", "request_cred_update"}
              => ev'.rv = SDP_ERROR_CONN_DOWN /\ client' = client]_vars

\* a credential request made in READY after the connection went down has
\* been refused with SDP_ERROR_CONN_DOWN
C7_Witness ==
    /\ ev.op = "request_cred_update"
    /\ ev.rv = SDP_ERROR_CONN_DOWN
    /\ client.client_state = READY
    /\ client.conn_state = SDP_COM_DISCONNECTED
    /\ client.last_contact > 0

\* handle_signals runs with SIGHUP pending
HupStep ==
    /\ pc = "signals"
    /\ pc' # "signals"
    /\ sig.got_signal # "none"
    /\ sig.sighup

\* the context rebuilt by the restart from the config file as it is on disk
Rebuilt ==
    /\ client'.initialized
    /\ ConfigOf(client') = config_disk
    /\ client'.conn_state = SDP_COM_DISCONNECTED
    /\ client'.client_state = READY
    /\ client'.req_attempts = 0
    /\ client'.last_cred_update = 0

\* after a restart the rest of the iteration leaves the client alone, and an
\* iteration that starts disconnected starts by connecting
ReconnectsNext ==
    /\ pc = "keepalive" /\ ev.op = "handle_signals" /\ ev.note = "SIGHUP"
          => pc' = "sleep" /\ client' = client
    /\ pc = "connect" /\ pc' # "connect" /\ client.conn_state = SDP_COM_DISCONNECTED
          => ev'.op = "connect"

C9_LockHandleKept ==
    [][HupStep /\ rv' = SDP_SUCCESS => client'.pid_lock_fd = client.pid_lock_fd]_vars

\* handle_signals runs with SIGINT or SIGTERM flagged
ExitSigStep ==
    /\ pc = "signals"
    /\ pc' # "signals"
    /\ sig.sigint \/ sig.sigterm

\* C11: when the SIGINT or SIGTERM flag is set as the loop reaches
\* handle_signals, the loop breaks in that iteration with
\* SDP_ERROR_GOT_EXIT_SIG, whatever other flags are set, so that no
\* delivered SIGINT or SIGTERM stays pending.
C11_ExitSignalWins ==
    [][ExitSigStep =>
            /\ rv' = SDP_ERROR_GOT_EXIT_SIG
            /\ pc' = "break"]_vars

\* a step of the loop, as opposed to a step of the controller or the clock
LoopStep == pc' # pc \/ msg_cnt' # msg_cnt

\* a credential update has been applied by a client that is not to remain
\* connected
OneShotApplied == ~client.remain_connected /\ client.last_cred_update > 0

\* C12: in non-remain-connected mode the loop applies exactly one credential
\* update, a request having been sent before it; once the update has been
\* applied no further request is transmitted, whatever cred_update_interval
\* is, and the iteration ends the loop with SDP_SUCCESS.
C12_OneShot ==
    [][/\ (~client.remain_connected /\ AtCredBundle /\ LoopStep
              /\ ev'.rv = SDP_SUCCESS
            => client.client_state \in CredStates /\ client.last_cred_update = 0)
       /\ (OneShotApplied /\ LoopStep => ~HasRequest(ev'.tx))
       /\ (OneShotApplied /\ pc = "cred" /\ LoopStep
            => pc' = "break" /\ rv' = SDP_SUCCESS)]_vars

\* C13: a client that is not to remain connected is never forked by start:
\* after start the process is still the caller's own.
C13_NoForkOneShot ==
    [][pc = "idle" /\ pc' # "idle" /\ ~client.remain_connected
            => proc' = MyPid /\ parent' = NoParent]_vars

\* what stop has done: "TERM" and "KILL" are the signals sent, "alive" and
\* "gone" the results of the probes, "sleep" the one-second waits
StopLog == stop.did

\* stop has returned after reading a recorded pid
StopReturned == pc = "stopped" /\ StopLog # <<>>

C15_StatusReleases == pc = "status_done" => lock_holder # proc

\* C16: after the PID-file lock has been acquired, the PID file holds the
\* decimal digits of the holder's pid followed by one newline and nothing
\* else, and reading the running pid back from it yields that pid.
C16_PidRecord ==
    pc = "status_done" /\ lock_holder = proc =>
        /\ pid_file = Append(Decimal(proc), NL)
        /\ sdp_ctrl_client_get_running_pid(client, pid_file, "ok").pid = proc

\* a consider step finds the retry deadline of the outstanding request
\* passed with req_attempts equal to max_req_attempts
AtReqCapDeadline ==
    /\ \/ pc = "cred" /\ client.client_state \in CredStates
       \/ pc = "keepalive" /\ client.client_state \in KeepAliveStates
    /\ Live
    /\ client.conn_state = SDP_COM_CONNECTED
    /\ client.req_attempts = client.max_req_attempts
    /\ retry_due(client, now)
    /\ LoopStep

\* C17: for every configured max_req_attempts (1..MaxAttempts), at the
\* start of every loop iteration req_attempts <= max_req_attempts; a retry
\* deadline reached with req_attempts = max_req_attempts moves the client
\* to TIME_TO_QUIT and transmits nothing.
C17_AttemptsBounded ==
    /\ [](pc = "connect" /\ Live =>
            /\ client.max_req_attempts >= 1
            /\ client.req_attempts <= client.max_req_attempts)
    /\ [][AtReqCapDeadline =>
            /\ client'.client_state = TIME_TO_QUIT
            /\ client'.req_attempts = client.req_attempts
            /\ ev'.tx = <<>>]_vars

\* the loop ended in TIME_TO_QUIT with req_attempts at the configured cap of 2
C17_Witness ==
    /\ pc = "done"
    /\ client.client_state = TIME_TO_QUIT
    /\ client.max_req_attempts = 2
    /\ client.req_attempts = client.max_req_attempts

\* the SPA keys the transport facade holds in memory
MemKeys(c) == <<c.spa_encryption_key, c.spa_hmac_key>>

\* C18: the in-memory SPA keys change only in a step that has written all
\* four files with the new credentials, and the facade never holds a key
\* that was freed and not replaced, also when copying the new key fails.
C18_KeysSwappedSafely ==
    /\ [][Live /\ MemKeys(client') # MemKeys(client) =>
            \A t \in TargetSet : disk'.files[t] = Head(inbox).creds]_vars
    /\ [](Live => NULLKEY \notin Range(MemKeys(client)))

\* check_inbox processes a credential bundle whose four files are written
\* and whose copy into the facade's memory fails
KeyCopyFails == AtCredBundle /\ LoopStep /\ ev'.fault \in {5, 6}

\* C19: a memory error while copying the new keys into the facade, the four
\* files having been written, does not end the loop: the update counts as
\* applied, last_cred_update advances and, the transport permitting, the
\* acknowledgement is sent.
C19_KeyCopyNonFatal ==
    [][KeyCopyFails =>
            /\ client'.last_cred_update = now
            /\ ev'.note = "ok" =>
                    /\ pc' = "inbox"
                    /\ rv' = SDP_SUCCESS
                    /\ ev'.tx = <<MSG_CRED_FULFILLED>>]_vars

\* check_inbox processes a credential bundle and the store fails at one of
\* its four writes
StoreWriteFails == AtCredBundle /\ LoopStep /\ ev'.fault \in 1..4

\* C20: a write failure in the credential store while a received update is
\* processed does not end the loop while attempts remain: it is counted as
\* one failed attempt of the credential request.
C20_StoreFailureCounted ==
    [][StoreWriteFails /\ client.client_state \in CredStates
            /\ client.req_attempts < client.max_req_attempts =>
            /\ pc' # "break"
            /\ client'.client_state \in CredStates
            /\ client'.req_attempts = client.req_attempts + 1]_vars

\* check_inbox takes a message that sdp_message_process classifies as
\* BAD_RESULT or with a tag the switch has no case for
DropsUnknown ==
    /\ pc = "inbox"
    /\ inbox # <<>>
    /\ Head(inbox).tag = UNRECOGNISED
    /\ msg_cnt' = msg_cnt + 1
    /\ ev'.note \in {BAD_RESULT, UNKNOWN_RESULT}

\* C21: a message classified as BAD_RESULT or with an unrecognised result
\* tag is dropped: client_state, req_attempts, req_retry_interval,
\* last_contact and last_cred_update stay as they were, nothing is sent and
\* the drain goes on.
C21_UnknownDropped ==
    [][DropsUnknown =>
            /\ client'.client_state = client.client_state
            /\ client'.req_attempts = client.req_attempts
            /\ client'.req_retry_interval = client.req_retry_interval
            /\ client'.last_contact = client.last_contact
            /\ client'.last_cred_update = client.last_cred_update
            /\ ev'.tx = <<>>
            /\ rv' = SDP_SUCCESS
            /\ pc' = "inbox"]_vars

\* an unrecognised message was dropped while a credential request is
\* outstanding
C21_Witness ==
    /\ pc = "inbox"
    /\ ev.op = "message_process"
    /\ ev.note = UNKNOWN_RESULT
    /\ client.client_state = CRED_REQUESTING
    /\ client.req_attempts = 1

\* the loop connects: the initial connect or a reconnect
ConnectStep ==
    /\ pc = "connect"
    /\ client.conn_state = SDP_COM_DISCONNECTED
    /\ pc' = "inbox"

\* C22: after every successful connect made by the loop, client_state is
\* READY, req_attempts is 0 and req_retry_interval is the initial one.
C22_FreshConnectionReady ==
    [][ConnectStep =>
            /\ client'.conn_state = SDP_COM_CONNECTED
            /\ client'.client_state = READY
            /\ client'.req_attempts = 0
            /\ client'.req_retry_interval = client'.initial_req_retry_interval]_vars

\* replay_check has been called
ReplayStep == replay' # replay \/ rpdb' # rpdb

\* the digest of the call being made is in the cache before the call
WasCached == rpdb[replay'.digest] # NoEntry

\* the call being made meets an error: no digest, no cache file, or a store
\* of the new entry that fails
ReplayError ==
    \/ replay'.fault \in {"digest_fail", "open_fail"}
    \/ replay'.fault = "store_fail" /\ ~WasCached

\* C23: replay_check returns 1 when the digest is already in the cache, 0
\* when it was not and has been added, and -1 on every error, a failing
\* store of the new digest included.
C23_ReplayResult ==
    [][ReplayStep =>
            /\ ReplayError => replay'.res = -1
            /\ ~ReplayError /\ WasCached => replay'.res = 1
            /\ ~ReplayError /\ ~WasCached =>
                    /\ replay'.res = 0
                    /\ rpdb'[replay'.digest] = replay'.src_ip]_vars

\* C24: once replay_check has returned 0 for a digest, every later call
\* with that digest that gets as far as the lookup returns 1 and leaves the
\* cache as it was.
C24_ReplayDetected ==
    [][/\ ReplayStep
       /\ replay'.digest \in replay.zero
       /\ replay'.fault \notin {"digest_fail", "open_fail"}
       => replay'.res = 1 /\ rpdb' = rpdb]_vars

\* the targets the store has overwritten when its write number step fails,
\* in the order of the writes
Written(step) == SubSeq(Targets, 1, step - 1)

Reverse(seq) == [i \in 1..Len(seq) |-> seq[Len(seq) + 1 - i]]

\* C25 as stated: when a step of the store fails, the targets already
\* overwritten are restored in reverse order of the writes.
C25_Original ==
    [][StoreWriteFails => ev'.restored = Reverse(Written(ev'.fault))]_vars

\* C25: when a step of the store fails, sdp_restore_file is called for
\* every target already overwritten and for no other, the calls being made
\* in the order of the writes (cert, then key, then client config for a
\* failure at the fourth step).
C25_RestoreAll ==
    [][StoreWriteFails =>
            /\ ev'.restored = Written(ev'.fault)
            /\ Range(ev'.restored) = Range(Written(ev'.fault))]_vars

\* the fourth write of the first bundle's store has failed and the three
\* restores have been made
C25_Witness ==
    /\ ev.op = "process_cred_update"
    /\ ev.fault = 4
    /\ ev.restored = <<"cert", "key", "config">>
    /\ nbundle = 1

\* a consider step finds the retry deadline of the outstanding request
\* passed with attempts remaining, and the transport takes the message
RetryStep ==
    /\ \/ pc = "cred" /\ client.client_state \in CredStates
       \/ pc = "keepalive" /\ client.client_state \in KeepAliveStates
    /\ Live
    /\ client.conn_state = SDP_COM_CONNECTED
    /\ retry_due(client, now)
    /\ client.req_attempts < client.max_req_attempts
    /\ LoopStep
    /\ ev'.note = "ok"

\* the request of the kind that is outstanding
SameRequest ==
    IF client.client_state \in CredStates THEN MSG_CRED_REQUESTING ELSE MSG_KEEP_ALIVE

\* C26 as stated: after the retry step the state is the matching
\* *Unfulfilled state.
C26_Original ==
    [][RetryStep =>
            /\ ev'.tx = <<SameRequest>>
            /\ client'.req_attempts = client.req_attempts + 1
            /\ client'.client_state =
                    IF client.client_state \in CredStates
                    THEN CRED_UNFULFILLED ELSE KEEP_ALIVE_UNFULFILLED]_vars

\* C26: when the retry interval has elapsed for an outstanding request and
\* attempts remain, the request is sent again, req_attempts is incremented
\* and, the retry step completed, client_state is the matching *Requesting
\* state; a client between two steps is never in an *Unfulfilled state
\* unless the loop is ending on the error of that send.
C26_RetryRequesting ==
    /\ [][RetryStep =>
            /\ ev'.tx = <<SameRequest>>
            /\ client'.req_attempts = client.req_attempts + 1
            /\ client'.client_state =
                    IF client.client_state \in CredStates
                    THEN CRED_REQUESTING ELSE KEEP_ALIVE_REQUESTING]_vars
    /\ [](Live /\ client.client_state \in {CRED_UNFULFILLED, KEEP_ALIVE_UNFULFILLED}
            => pc \in {"break", "done"} /\ rv \in {ERR_MESSAGE_MAKE, ERR_COM_SEND})

\* a keep-alive has been sent a second time and awaits its reply
C26_Witness ==
    /\ pc = "sleep"
    /\ ev.tx = <<MSG_KEEP_ALIVE>>
    /\ client.client_state = KEEP_ALIVE_REQUESTING
    /\ client.req_attempts = 2
    /\ retries = 1

\* the top of an iteration
TopStep == pc = "connect" /\ pc' # "connect"

\* C27: at the top of each iteration a disconnected client connects before
\* anything else: on success initial_conn_time and last_contact are both
\* the current time and the iteration goes on to the inbox; on failure the
\* loop leaves with the connect error, nothing having been polled or sent.
\* A connected client is left as it is.  No poll is made and no request is
\* sent from a position the connect step has not led to.
C27_ConnectFirst ==
    /\ [][TopStep /\ client.conn_state = SDP_COM_DISCONNECTED =>
            /\ ev'.op = "connect"
            /\ ev'.tx = <<>>
            /\ \/ /\ pc' = "inbox"
                  /\ rv' = SDP_SUCCESS
                  /\ client'.conn_state = SDP_COM_CONNECTED
                  /\ client'.initial_conn_time = now
                  /\ client'.last_contact = now
               \/ /\ pc' = "break"
                  /\ rv' = ERR_COM_CONNECT
                  /\ client' = client
                  /\ disk' = disk]_vars
    /\ [][TopStep /\ client.conn_state = SDP_COM_CONNECTED =>
            pc' = "inbox" /\ client' = client]_vars
    /\ [][pc = "break" /\ rv = ERR_COM_CONNECT /\ pc' # pc =>
            /\ pc' = "done"
            /\ rv' = ERR_COM_CONNECT
            /\ ev'.tx = <<>>
            /\ inbox' = inbox]_vars
    /\ [][pc' = "inbox" /\ pc # "inbox" => pc = "connect"]_vars

\* the transport lost the session while a request was outstanding and the
\* loop has connected again, two seconds after the first connect
C27_Witness ==
    /\ pc = "inbox"
    /\ ev.op = "connect"
    /\ client.conn_state = SDP_COM_CONNECTED
    /\ client.initial_conn_time = StartTime + 2
    /\ client.last_contact = StartTime + 2
    /\ client.last_req_time = StartTime

\* a credential refresh and a keep-alive are both due in READY as the
\* iteration reaches consider_cred_update
BothDue ==
    /\ pc = "cred"
    /\ Live
    /\ client.conn_state = SDP_COM_CONNECTED
    /\ client.client_state = READY
    /\ cred_update_due(client, now)
    /\ keep_alive_due(client, now)

\* C28: a request of one kind is sent only when no request of the other
\* kind is outstanding; when a credential refresh and a keep-alive are both
\* due in READY, the credential request is the one sent, and while it is
\* outstanding the keep-alive step sends nothing and changes nothing.
C28_OneRequestKind ==
    /\ [][LoopStep /\ Sends(MSG_KEEP_ALIVE) =>
            client.client_state \in {READY} \cup KeepAliveStates]_vars
    /\ [][LoopStep /\ Sends(MSG_CRED_REQUESTING) =>
            client.client_state \in {READY} \cup CredStates]_vars
    /\ [][BothDue /\ LoopStep /\ ev'.note = "ok" =>
            /\ ev'.tx = <<MSG_CRED_REQUESTING>>
            /\ client'.client_state = CRED_REQUESTING]_vars
    /\ [][pc = "keepalive" /\ LoopStep /\ client.client_state \in CredStates =>
            /\ ev'.tx = <<>>
            /\ client' = client
            /\ pc' = "sleep"]_vars

\* both were due in READY, the credential request went out and the
\* keep-alive step of that iteration has passed without sending
C28_Witness ==
    /\ pc = "sleep"
    /\ client.client_state = CRED_REQUESTING
    /\ client.last_req_time = now
    /\ client.req_attempts = 1
    /\ client.last_cred_update > 0
    /\ keep_alive_due(client, now)

\* a step of check_inbox that takes a message off the transport
DrainStep == pc = "inbox" /\ msg_cnt' = msg_cnt + 1

\* check_inbox returns to the loop without an error
DrainEnds == pc = "inbox" /\ pc' = "cred"

\* C29: one drain handles at most message_queue_len messages, ends as soon
\* as the transport has nothing queued, returns success in that case, and
\* leaves every message it did not handle queued.
C29_DrainBounded ==
    /\ [](pc \in {"inbox", "cred"} => msg_cnt <= client.message_queue_len)
    /\ [][DrainStep => /\ msg_cnt < client.message_queue_len
                       /\ inbox # <<>>
                       /\ inbox' = Tail(inbox)]_vars
    /\ [][pc = "inbox" /\ inbox = <<>> /\ pc' # pc /\ ev'.note # "get_msg" =>
            /\ pc' = "cred"
            /\ rv' = SDP_SUCCESS
            /\ msg_cnt' = msg_cnt]_vars
    /\ [][DrainEnds => /\ inbox' = inbox
                       /\ rv' = SDP_SUCCESS
                       /\ (msg_cnt = client.message_queue_len \/ inbox = <<>>)]_vars

\* the drain has handled message_queue_len messages and one more is still
\* queued
C29_Witness ==
    /\ pc = "cred"
    /\ msg_cnt = client.message_queue_len
    /\ inbox # <<>>
    /\ ev.note = "full"

\* check_inbox processes a credential bundle and the store fails, at a
\* write or at a key copy
StoreFails == AtCredBundle /\ LoopStep /\ ev'.fault \in 1..6

\* C30: when the store of a received credential bundle fails, its error is
\* returned, no Fulfilled acknowledgement is sent, and last_cred_update,
\* last_contact, client_state and the request variables stay as they were;
\* a Fulfilled acknowledgement is sent only after a store that succeeded.
C30_StoreFailureLeavesState ==
    /\ [][StoreFails =>
            /\ rv' # SDP_SUCCESS
            /\ ev'.rv = rv'
            /\ ev'.tx = <<>>
            /\ client'.last_cred_update = client.last_cred_update
            /\ client'.last_contact = client.last_contact
            /\ client'.client_state = client.client_state
            /\ client'.req_attempts = client.req_attempts
            /\ client'.req_retry_interval = client.req_retry_interval
            /\ client'.last_req_time = client.last_req_time]_vars
    /\ [][LoopStep /\ Sends(MSG_CRED_FULFILLED) =>
            /\ AtCredBundle
            /\ ev'.fault = 0
            /\ client'.last_cred_update = now
            /\ client'.spa_encryption_key = Head(inbox).creds]_vars

\* a store failed while a credential request was outstanding and had been
\* retried: the request is still outstanding and the loop has its error
C30_Witness ==
    /\ pc = "break"
    /\ ev.op = "process_cred_update"
    /\ ev.fault \in 1..6
    /\ rv # SDP_SUCCESS
    /\ client.client_state = CRED_REQUESTING
    /\ client.req_attempts >= 1
    /\ client.last_cred_update = 0

\* consider_cred_update is about to send a first credential request
FirstCredRequest ==
    /\ pc = "cred"
    /\ Live
    /\ client.conn_state = SDP_COM_CONNECTED
    /\ client.client_state = READY
    /\ cred_update_due(client, now)

\* consider_keep_alive is about to send a first keep-alive request
FirstKeepAlive ==
    /\ pc = "keepalive"
    /\ Live
    /\ client.conn_state = SDP_COM_CONNECTED
    /\ client.client_state = READY
    /\ keep_alive_due(client, now)

\* the request variables and the state are those of before the step, and the
\* loop has the error of the step
RequestNotMade ==
    /\ client'.client_state = client.client_state
    /\ client'.req_attempts = client.req_attempts
    /\ client'.last_req_time = client.last_req_time
    /\ ev'.tx = <<>>
    /\ rv' \in {ERR_MESSAGE_MAKE, ERR_COM_SEND}
    /\ pc' = "break"

\* C31: a request sent from READY when it is due moves the state to the
\* matching Requesting state with req_attempts = 1 and last_req_time = now;
\* when making or sending the message fails, client_state, req_attempts and
\* last_req_time keep their values and the loop gets the error.
C31_FirstRequest ==
    /\ [][FirstCredRequest /\ LoopStep =>
            IF ev'.note = "ok"
            THEN /\ ev'.tx = <<MSG_CRED_REQUESTING>>
                 /\ client'.client_state = CRED_REQUESTING
                 /\ client'.req_attempts = 1
                 /\ client'.last_req_time = now
            ELSE RequestNotMade]_vars
    /\ [][FirstKeepAlive /\ LoopStep =>
            IF ev'.note = "ok"
            THEN /\ ev'.tx = <<MSG_KEEP_ALIVE>>
                 /\ client'.client_state = KEEP_ALIVE_REQUESTING
                 /\ client'.req_attempts = 1
                 /\ client'.last_req_time = now
            ELSE RequestNotMade]_vars

\* a first keep-alive request could not be sent: the client is still READY
\* without an attempt counted, and the loop has the error
C31_Witness ==
    /\ pc = "break"
    /\ ev.op = "consider_keep_alive"
    /\ ev.note = "send_fail"
    /\ rv = ERR_COM_SEND
    /\ client.client_state = READY
    /\ client.req_attempts = 0
    /\ client.last_req_time = 0
    /\ keep_alive_due(client, now)

\* check_inbox takes a keep-alive reply off the transport and processes it
KeepAliveReply ==
    /\ pc = "inbox"
    /\ inbox # <<>>
    /\ Head(inbox).tag = KEEP_ALIVE_FULFILLING
    /\ msg_cnt' = msg_cnt + 1

RequestVarsKept ==
    /\ client'.client_state = client.client_state
    /\ client'.req_attempts = client.req_attempts
    /\ client'.req_retry_interval = client.req_retry_interval
    /\ client'.last_req_time = client.last_req_time

RequestVarsCleared ==
    /\ client'.client_state = READY
    /\ client'.req_attempts = 0
    /\ client'.req_retry_interval = client.initial_req_retry_interval
    /\ client'.last_req_time = 0

\* C32: a keep-alive reply processed in READY or with a credential request
\* outstanding sets last_contact to now and leaves client_state,
\* req_attempts, req_retry_interval and last_req_time as they were; it clears
\* the request variables only when a keep-alive request was outstanding.
C32_KeepAliveReplyFrame ==
    /\ [][KeepAliveReply => client'.last_contact = now]_vars
    /\ [][KeepAliveReply /\ client.client_state \notin KeepAliveStates =>
            RequestVarsKept]_vars
    /\ [][KeepAliveReply /\ client.client_state \in KeepAliveStates =>
            RequestVarsCleared]_vars

\* a keep-alive reply has been processed while a retried credential request
\* was outstanding: the request is still outstanding
C32_Witness ==
    /\ pc = "inbox"
    /\ ev.op = "process_keep_alive"
    /\ client.client_state = CRED_REQUESTING
    /\ client.req_attempts = 2
    /\ client.last_contact = now
    /\ client.last_req_time > 0
    /\ client.last_req_time < now

\* check_inbox processes a credential bundle and the store succeeds
BundleStored ==
    /\ AtCredBundle
    /\ msg_cnt' = msg_cnt + 1
    /\ ev'.op = "process_cred_update"
    /\ ev'.fault = 0

\* C33: a credential bundle processed in any state, READY and the keep-alive
\* states included, is written to the credential store, acknowledged with
\* Fulfilled and advances last_cred_update; the state goes back to READY
\* only from the credential states, and an outstanding keep-alive request
\* stays outstanding.
C33_UnsolicitedBundleStored ==
    /\ [][BundleStored =>
            /\ \A f \in DOMAIN disk'.files : disk'.files[f] = Head(inbox).creds
            /\ client'.last_cred_update = now
            /\ client'.last_contact = now
            /\ (ev'.note = "ok" => ev'.tx = <<MSG_CRED_FULFILLED>> /\ rv' = SDP_SUCCESS)]_vars
    /\ [][BundleStored /\ client.client_state \in CredStates =>
            RequestVarsCleared]_vars
    /\ [][BundleStored /\ client.client_state \notin CredStates =>
            RequestVarsKept]_vars

\* a bundle nobody asked for has been stored and acknowledged while a
\* keep-alive request was outstanding, and that request is still outstanding
C33_Witness ==
    /\ pc = "inbox"
    /\ ev.op = "process_cred_update"
    /\ ev.fault = 0
    /\ ev.tx = <<MSG_CRED_FULFILLED>>
    /\ client.client_state = KEEP_ALIVE_REQUESTING
    /\ client.req_attempts >= 1
    /\ client.last_cred_update = now
    /\ \E f \in DOMAIN disk.files : disk.files[f] # 0

\* the loop runs handle_signals
HandlerCheck == pc = "signals" /\ pc' # pc

\* the signal handle_signals picks among the flags that are set
FirstInOrder(s) ==
    IF s.sighup THEN "SIGHUP"
    ELSE IF s.sigint THEN "SIGINT"
    ELSE IF s.sigterm THEN "SIGTERM"
    ELSE "none"

\* C34: at a handler check with the generic flag set, one signal is acted
\* on, the first set of HUP, INT, TERM; the generic flag and the flag of
\* that signal are cleared and every other flag stays as it was; with the
\* generic flag clear nothing is acted on and no flag changes, whatever the
\* per-signal flags hold.
C34_OneSignalPerCheck ==
    /\ [][HandlerCheck /\ sig.got_signal # "none" =>
            /\ ev'.note = FirstInOrder(sig)
            /\ sig'.got_signal = "none"
            /\ sig'.sighup = (sig.sighup /\ FirstInOrder(sig) # "SIGHUP")
            /\ sig'.sigint = (sig.sigint /\ FirstInOrder(sig) # "SIGINT")
            /\ sig'.sigterm = (sig.sigterm /\ FirstInOrder(sig) # "SIGTERM")
            /\ sig'.sigusr1 = sig.sigusr1]_vars
    /\ [][HandlerCheck /\ sig.got_signal = "none" =>
            /\ ev'.note = "none"
            /\ sig' = sig
            /\ client' = client
            /\ rv' = SDP_SUCCESS
            /\ pc' = "keepalive"]_vars

\* SIGHUP has been acted on while SIGINT was flagged too: the generic flag
\* is clear and the SIGINT flag is still set
C34_Witness ==
    /\ ev.op = "handle_signals"
    /\ ev.note = "SIGHUP"
    /\ sig.got_signal = "none"
    /\ ~sig.sighup
    /\ sig.sigint

\* a handler check has passed over a set SIGINT flag because the generic
\* flag was clear
C34_WitnessIdle ==
    /\ pc = "keepalive"
    /\ ev.op = "handle_signals"
    /\ ev.note = "none"
    /\ sig.got_signal = "none"
    /\ sig.sigint

\* the loop has ended and runs its final sdp_com_disconnect(client->com)
FinalDisconnect == pc = "break" /\ pc' # pc

\* C35: on every path out of the loop the final disconnect works on a
\* context that is still allocated and initialised, the path on which the
\* reinitialisation after SIGHUP fails included, and the loop does not end
\* in a crash.
C35_DisconnectOnLiveContext ==
    /\ [][FinalDisconnect => ctx = "live" /\ client.initialized]_vars
    /\ [](pc # "crashed")

\* C36: a client that is not to remain connected always leaves its loop,
\* whatever the controller sends or withholds: with SUCCESS once a
\* credential update has been applied, or else with an error.
C36_OneShotTerminates ==
    /\ (pc = "connect") ~> (pc = "done")
    /\ [](pc = "done" =>
            \/ rv = SDP_SUCCESS /\ client.last_cred_update > 0
            \/ rv # SDP_SUCCESS)

\* the controller never answered: the loop has ended with the error of the
\* exhausted attempts
C36_Witness ==
    /\ pc = "done"
    /\ rv = SDP_ERROR_MANY_FAILED_REQS
    /\ client.last_cred_update = 0
    /\ client.req_attempts = client.max_req_attempts
    /\ client.max_req_attempts = 2

\* the request variables hold what clear_state_vars leaves in them
RequestVarsAtRest ==
    /\ client.req_attempts = 0
    /\ client.last_req_time = 0
    /\ client.req_retry_interval = client.initial_req_retry_interval

\* the statement with READY entered only through the step that clears the
\* request variables
C37_Original ==
    /\ [](Live /\ client.client_state = READY => RequestVarsAtRest)
    /\ [][Live /\ Live' /\ client.client_state # READY
            /\ client'.client_state = READY =>
            /\ ev'.op \in {"process_keep_alive", "process_cred_update"}
            /\ RequestVarsCleared]_vars
    /\ [][Live /\ Live' /\ client.client_state = READY
            /\ client'.client_state = READY => RequestVarsKept]_vars

\* handle_signals acts on SIGHUP and the context is initialised anew
Reinitialised ==
    /\ ev'.op = "handle_signals"
    /\ ev'.note = "SIGHUP"
    /\ rv' = SDP_SUCCESS

\* C37: whenever the client is READY, at the top of an iteration and at
\* every call in between, req_attempts = 0, last_req_time = 0 and
\* req_retry_interval = initial_req_retry_interval; READY is entered by a
\* processed reply that clears the request variables or by the
\* reinitialisation after SIGHUP, which leaves them at the same values, and
\* no other step changes them while the state stays READY.
C37_ReadyAtRest ==
    /\ [](Live /\ client.client_state = READY => RequestVarsAtRest)
    /\ [][Live /\ Live' /\ client.client_state # READY
            /\ client'.client_state = READY =>
            \/ /\ ev'.op \in {"process_keep_alive", "process_cred_update"}
               /\ RequestVarsCleared
            \/ /\ Reinitialised
               /\ RequestVarsAtRest']_vars
    /\ [][Live /\ client.client_state = READY /\ client'.client_state = READY
            /\ ~Reinitialised /\ Live' => RequestVarsKept]_vars

\* a credential request was outstanding in the first iteration when SIGHUP
\* was acted on: the client is READY again with the request variables at rest
C37_Witness ==
    /\ pc = "keepalive"
    /\ now = StartTime
    /\ ev.op = "handle_signals"
    /\ ev.note = "SIGHUP"
    /\ Live
    /\ client.client_state = READY
    /\ RequestVarsAtRest

====
